---- MODULE Spec2Model ----
(***************************************************************************)
(* NeuroTrack: the task record store (data_handler.py and the handlers of  *)
(* app.py that mutate it) and the content-based task recommender           *)
(* (recommendations.py).                                                   *)
(*                                                                         *)
(* Time is counted in slots: a calendar day has SlotsPerDay slots, a       *)
(* datetime is date * SlotsPerDay + slot, and a duration of n minutes is n *)
(* slots.  Text is a sequence of characters.  A CSV cell is text: a date   *)
(* is written <<d>>, a timestamp <<d, slot>>, a number <<n>>, a boolean    *)
(* <<"True">> or <<"False">>, and an empty cell is <<>>.                   *)
(***************************************************************************)
EXTENDS Integers, Sequences, FiniteSets, TLC

VARIABLES
    file,       \* data.csv: [exists, header, rows], rows of text cells
    data,       \* the DataFrame `data` of the current script run (typed rows)
    outcome,    \* what the last handler did: "saved", "overlap", "import_error", "recommended", "exception"
    dropped,    \* rows the last handler's merge dropped as duplicates (clean_data reports them)
    pool,       \* recommender: the candidate DataFrame handed to recommend_tasks
    input_task, \* recommender: the context record
    top_n,      \* recommender: requested number of rows
    exclude_completed, \* recommender: the flag
    rounding,   \* recommender: floating-point error, in ulps, of a cosine that is 1 in exact arithmetic
    recs,       \* recommender: the returned rows
    fitted,     \* recommender: self.tfidf_vectorizer, self.scaler and self.encoder
    stale,      \* recommender: the last call found the instance fitted on another frame
    records,    \* forecaster: the DataFrame handed to the entry point
    horizon,    \* forecaster: the number of days to forecast
    draws,      \* forecaster: what np.random returns at each forecast step (-1, 0 or 1 deviations)
    result,     \* forecaster: the (history, forecast) pair of the last call
    summary,    \* forecaster: the trends of the last forecast summary
    score_df,   \* analytics: the DataFrame handed to calculate_productivity_score
    weights,    \* analytics: the weights handed to calculate_productivity_score, in hundredths
    score,      \* analytics: what calculate_productivity_score returned, or that it raised
    burnout_df, \* analytics: the DataFrame handed to assess_burnout_risk
    risk,       \* analytics: what assess_burnout_risk returned
    tags_mem,   \* export: the tag lists of the records in memory
    export_csv, \* export: the tags cells of the downloaded CSV
    tags_back,  \* export: the tag lists after the CSV was imported into an empty store
    timer_running,  \* st.session_state.timer_running
    paused,         \* st.session_state.paused
    remaining_time, \* st.session_state.remaining_time
    current_task,   \* st.session_state.current_task
    selected_focus_task, \* st.session_state.selected_focus_task, the selectbox of the timer
    timer_refresh,  \* the counter st_autorefresh returns
    timer_event     \* what the last script run did in the Focus Timer section

vars == <<file, data, outcome, dropped, pool, input_task, top_n, exclude_completed, rounding, recs,
          fitted, stale, records, horizon, draws, result, summary,
          score_df, weights, score, burnout_df, risk, tags_mem, export_csv, tags_back,
          timer_running, paused, remaining_time, current_task, selected_focus_task,
          timer_refresh, timer_event>>
anVars == <<score_df, weights, score, burnout_df, risk>>
exVars == <<tags_mem, export_csv, tags_back>>
timerVars == <<timer_running, paused, remaining_time, current_task, selected_focus_task,
               timer_refresh, timer_event>>
fcVars == <<records, horizon, draws, result, summary, anVars, exVars, timerVars>>
recVars == <<pool, input_task, top_n, exclude_completed, rounding, recs, fitted, stale, fcVars>>

----------------------------------------------------------------------------
(* Bounds of the model *)

MaxRecords == 2     \* rows the store may hold

Dates == {1, 2}     \* calendar dates of the inputs
Slots == {0, 1}     \* start times of day of the inputs
SlotsPerDay == Cardinality(Slots)
Today == 1          \* date.today() of the session

----------------------------------------------------------------------------
(* Values *)

NaT == -1           \* missing timestamp / date
NaNNum == -1        \* missing number
None == -1          \* end_time_obj=None
NaN == <<"NaN">>    \* missing value in a text column
EmptyCell == <<>>
Garbage == <<0, 0, 0>>  \* a cell that parses neither as a date nor as a number

\* the columns of COLUMN_ORDER that the keys, the intervals and the completion
\* of a record use; the descriptive columns are left out of the store
COLUMN_ORDER == {"date", "task", "start_time", "end_time", "time_taken", "completed"}
EssentialColumns == {"task", "date", "start_time", "time_taken"}

\* the default NA markers of read_csv that the character set can spell
NA_VALUES == {<<>>, <<"n", "a", "n">>}

----------------------------------------------------------------------------
(* Text helpers: str.lower, str.strip, astype(str) *)

RECURSIVE lower(_)
lower(s) ==
    IF s = <<>> THEN <<>>
    ELSE <<IF Head(s) = "A" THEN "a" ELSE Head(s)>> \o lower(Tail(s))

RECURSIVE lstrip(_)
lstrip(s) == IF s # <<>> /\ Head(s) = " " THEN lstrip(Tail(s)) ELSE s

RECURSIVE rstrip(_)
rstrip(s) ==
    IF s # <<>> /\ s[Len(s)] = " " THEN rstrip(SubSeq(s, 1, Len(s) - 1)) ELSE s

strip(s) == rstrip(lstrip(s))

astype_str(x) == IF x = NaN THEN <<"n", "a", "n">> ELSE x

----------------------------------------------------------------------------
(* Conversions between typed values and CSV text *)

combine(d, slot) == d * SlotsPerDay + slot

strftime_datetime(t) ==
    IF t = NaT THEN EmptyCell ELSE <<t \div SlotsPerDay, t % SlotsPerDay>>

strftime_date(d) == IF d = NaT THEN EmptyCell ELSE <<d>>

to_datetime(txt) ==
    CASE Len(txt) = 2 -> combine(txt[1], txt[2])
      [] Len(txt) = 1 -> combine(txt[1], 0)
      [] OTHER -> NaT

to_date(txt) == IF Len(txt) \in {1, 2} THEN txt[1] ELSE NaT

to_numeric(txt) == IF Len(txt) = 1 THEN txt[1] ELSE NaNNum

bool_text(b) == IF b THEN <<"True">> ELSE <<"False">>

read_bool(txt) == txt = <<"True">>

read_text(txt) == IF txt \in NA_VALUES THEN NaN ELSE txt

write_text(x) == IF x = NaN THEN EmptyCell ELSE x

----------------------------------------------------------------------------
(* DataFrames: [columns, raw, rows]; raw means the date and time columns    *)
(* still hold the text read_csv produced.                                  *)

\* Op applied to the value of v, with v evaluated once
Let(v, Op(_)) == CHOOSE y \in {Op(x) : x \in {v}} : TRUE

SeqMap(Op(_), s) == Let(s, LAMBDA t : [i \in 1..Len(t) |-> Op(t[i])] \o <<>>)

SeqFilter(Test(_), s) == SelectSeq(s, Test)

Range(s) == {s[i] : i \in DOMAIN s}

Frame(rows) == [rows |-> rows, columns |-> COLUMN_ORDER, raw |-> FALSE]

NoFile == [rows |-> <<>>, exists |-> FALSE, header |-> {}]

\* pd.read_csv: text columns get NaN for NA markers, numbers and booleans are
\* inferred, date and time columns stay text
read_csv(f) ==
    [rows |-> SeqMap(LAMBDA c : [date |-> c.date,
                                 task |-> read_text(c.task),
                                 start_time |-> c.start_time,
                                 end_time |-> c.end_time,
                                 time_taken |-> to_numeric(c.time_taken),
                                 completed |-> read_bool(c.completed)],
                     f.rows),
     columns |-> f.header,
     raw |-> TRUE]

\* clean_data, lines 101-117: pd.to_datetime(errors="coerce") on the date and
\* time columns, which parses text and leaves timestamps as they are
coerce_datetimes(df) ==
    IF df.raw
    THEN SeqMap(LAMBDA r : [r EXCEPT !.date = to_date(r.date),
                                     !.start_time = to_datetime(r.start_time),
                                     !.end_time = to_datetime(r.end_time)],
                df.rows)
    ELSE df.rows

\* clean_data, lines 116-121: time_taken and task
fill_and_normalize(r) ==
    [r EXCEPT !.time_taken = IF @ = NaNNum THEN 0 ELSE @,
              !.task = strip(lower(astype_str(@)))]

DupKey(r) == <<r.date, r.task, r.start_time, r.time_taken>>

\* variant: keep="last"
drop_duplicates_keep_last(rows0) ==
    Let(rows0, LAMBDA rows :
        Let({i \in 1..Len(rows) :
                \A j \in (i + 1)..Len(rows) : DupKey(rows[j]) # DupKey(rows[i])},
            LAMBDA keep :
                [k \in 1..Cardinality(keep) |->
                    rows[CHOOSE i \in keep : Cardinality({j \in keep : j <= i}) = k]] \o <<>>))

\* DataFrame.drop_duplicates(subset=..., keep="first")
drop_duplicates(rows0) ==
    Let(rows0, LAMBDA rows :
        Let({i \in 1..Len(rows) : \A j \in 1..(i - 1) : DupKey(rows[j]) # DupKey(rows[i])},
            LAMBDA keep :
                [k \in 1..Cardinality(keep) |->
                    rows[CHOOSE i \in keep : Cardinality({j \in keep : j <= i}) = k]] \o <<>>))

\* clean_data, lines 172-177
recalc_end_time(r) ==
    IF r.end_time = NaT \/ r.end_time < r.start_time
    THEN [r EXCEPT !.end_time = r.start_time + r.time_taken]
    ELSE r

clean_rows(df) ==
    SeqMap(recalc_end_time,
        drop_duplicates(
            SeqFilter(LAMBDA r : r.start_time # NaT /\ r.time_taken > 0,
                SeqMap(fill_and_normalize,
                    SeqFilter(LAMBDA r : r.date # NaT, coerce_datetimes(df))))))

clean_data(df0) ==
    Let(df0, LAMBDA df :
        IF df.rows = <<>> THEN [rows |-> <<>>, raised |-> FALSE]
        ELSE IF ~(EssentialColumns \subseteq df.columns)
        THEN [rows |-> <<>>, raised |-> TRUE]      \* KeyError at dropna(subset=...)
        ELSE [rows |-> clean_rows(df), raised |-> FALSE])

to_csv_row(r) ==
    [date |-> strftime_date(r.date),
     task |-> write_text(r.task),
     start_time |-> strftime_datetime(r.start_time),
     end_time |-> strftime_datetime(r.end_time),
     time_taken |-> <<r.time_taken>>,
     completed |-> bool_text(r.completed)]

save_data(rows) ==
    [rows |-> SeqMap(to_csv_row, rows), exists |-> TRUE, header |-> COLUMN_ORDER]

load_data(f) ==
    IF ~f.exists THEN <<>>
    ELSE Let(clean_data(read_csv(f)), LAMBDA r : IF r.raised THEN <<>> ELSE r.rows)

\* app.py, "Load Data": what every script run starts from
app_load(f) ==
    Let(load_data(f), LAMBDA loaded :
        IF loaded # <<>> THEN clean_data(Frame(loaded)).rows ELSE loaded)

----------------------------------------------------------------------------
(* Overlap check and manual add *)

\* variant: touch points count as overlap
is_overlapping_touching(new_start, new_end, task_date, rows) ==
    IF rows = <<>> THEN FALSE
    ELSE \E i \in DOMAIN rows :
            /\ rows[i].date = task_date
            /\ rows[i].start_time # NaT
            /\ rows[i].end_time # NaT
            /\ new_start <= rows[i].end_time
            /\ new_end >= rows[i].start_time

\* variant: only the new start is tested against the existing intervals
is_overlapping_start_only(new_start, new_end, task_date, rows) ==
    IF rows = <<>> THEN FALSE
    ELSE \E i \in DOMAIN rows :
            /\ rows[i].date = task_date
            /\ rows[i].start_time # NaT
            /\ rows[i].end_time # NaT
            /\ new_start < rows[i].end_time
            /\ new_start >= rows[i].start_time

is_overlapping(new_start, new_end, task_date, rows) ==
    IF rows = <<>> THEN FALSE
    ELSE \E i \in DOMAIN rows :
            /\ rows[i].date = task_date
            /\ rows[i].start_time # NaT
            /\ rows[i].end_time # NaT
            /\ new_start < rows[i].end_time
            /\ new_end > rows[i].start_time

\* variant: the new row is concatenated and saved before the overlap check
add_manual_task_save_first(rows, f, task_name, time_taken, task_date, start_time_obj, end_time_obj) ==
    LET full_start == combine(task_date, start_time_obj)
        full_end == IF end_time_obj = None
                    THEN full_start + time_taken
                    ELSE combine(task_date, end_time_obj)
        new_task == [date |-> task_date,
                     task |-> strip(task_name),
                     start_time |-> full_start,
                     end_time |-> full_end,
                     time_taken |-> time_taken,
                     completed |-> FALSE]
    IN  Let(clean_data(Frame(rows \o <<new_task>>)).rows,
            LAMBDA cleaned :
                [file |-> save_data(cleaned), data |-> cleaned,
                 raised |-> is_overlapping(full_start, full_end, task_date, rows)])

add_manual_task(rows, f, task_name, time_taken, task_date, start_time_obj, end_time_obj) ==
    LET full_start == combine(task_date, start_time_obj)
        full_end == IF end_time_obj = None
                    THEN full_start + time_taken
                    ELSE combine(task_date, end_time_obj)
        new_task == [date |-> task_date,
                     task |-> strip(task_name),
                     start_time |-> full_start,
                     end_time |-> full_end,
                     time_taken |-> time_taken,
                     completed |-> FALSE]
    IN  IF is_overlapping(full_start, full_end, task_date, rows)
        THEN [file |-> f, data |-> rows, raised |-> TRUE]
        ELSE Let(clean_data(Frame(rows \o <<new_task>>)).rows,
                 LAMBDA cleaned : [file |-> save_data(cleaned), data |-> cleaned, raised |-> FALSE])

----------------------------------------------------------------------------
(* Inputs *)

NameInputs == {<<>>, <<" ", "A">>}     \* what the user types as task name
Durations == {1, 2}                    \* minutes: st.number_input(min_value=1)

CsvRow(d, name, st, en, tt, done) ==
    [date |-> d, task |-> name, start_time |-> st, end_time |-> en,
     time_taken |-> tt, completed |-> bool_text(done)]

\* rows an uploaded or hand-edited CSV may hold
ImportRows ==
    { CsvRow(<<1>>, <<"a">>, <<1, 0>>, <<1, 1>>, <<1>>, FALSE),     \* a well-formed row
      CsvRow(<<1>>, <<"A">>, <<1, 0>>, <<2, 0>>, <<1>>, TRUE),      \* same key, completed
      CsvRow(<<1>>, <<"a">>, <<1, 1>>, <<1, 1>>, <<1>>, FALSE),     \* end_time = start_time
      CsvRow(<<2>>, <<"a">>, <<2, 1>>, <<2, 0>>, <<2>>, FALSE),     \* end_time < start_time
      CsvRow(<<2>>, <<>>, <<2, 0>>, EmptyCell, <<1>>, FALSE),       \* no end_time, no name
      CsvRow(<<2>>, <<"a">>, <<2, 0>>, <<2, 1>>, <<0>>, FALSE),     \* time_taken = 0
      CsvRow(Garbage, <<"a">>, <<2, 0>>, <<2, 1>>, Garbage, FALSE) } \* neither a date nor a number

Headers == {COLUMN_ORDER} \cup {COLUMN_ORDER \ {c} : c \in EssentialColumns}

RECURSIVE SeqsUpTo(_, _)
SeqsUpTo(S, n) ==
    IF n = 0 THEN {<<>>}
    ELSE LET shorter == SeqsUpTo(S, n - 1)
         IN  shorter \cup {Append(q, x) : q \in {t \in shorter : Len(t) = n - 1}, x \in S}

CsvFile(h, rs) == [rows |-> rs, exists |-> TRUE, header |-> h]

\* the cells of a row under header h: a column the header lacks has no cell
Project(row, h) == [c \in COLUMN_ORDER |-> IF c \in h THEN row[c] ELSE EmptyCell]

\* a data.csv found at start-up
CsvFiles(n) ==
    {CsvFile(h, SeqMap(LAMBDA row : Project(row, h), rs)) :
        h \in Headers, rs \in SeqsUpTo(ImportRows, n)}

\* an uploaded CSV of at most n rows (one row when a column is missing)
Uploads(n) ==
    {CsvFile(COLUMN_ORDER, rs) : rs \in SeqsUpTo(ImportRows, n) \ {<<>>}}
        \cup {CsvFile(h, <<Project(r, h)>>) : h \in Headers \ {COLUMN_ORDER},
                                  r \in {x \in ImportRows : n > 0 /\ x.completed = bool_text(TRUE)}}

\* every upload of at most n rows with what clean_data(pd.read_csv(upload)) makes of it
CleanedUploads ==
    [n \in 0..MaxRecords |-> {[csv |-> c, imp |-> clean_data(read_csv(c))] : c \in Uploads(n)}]

RemoveAt(s, i) == SubSeq(s, 1, i - 1) \o SubSeq(s, i + 1, Len(s))

----------------------------------------------------------------------------
(* The handlers of app.py.  Every handler runs in a script run that starts *)
(* with app_load(file) and ends with st.rerun().                           *)

\* "Add Task": the form derives the end time from start + duration
AddTask ==
    \E cur \in {app_load(file)} :
      \E name \in NameInputs, d \in Dates, slot \in Slots, dur \in Durations :
        \E r \in {add_manual_task(cur, file, name, dur, d, slot, None)} :
          /\ Len(cur) < MaxRecords \/ r.raised
          /\ data' = r.data
          /\ file' = r.file
          /\ outcome' = IF r.raised THEN "overlap" ELSE "saved"
          /\ dropped' = IF r.raised THEN 0 ELSE Len(cur) + 1 - Len(r.data)
          /\ UNCHANGED recVars

\* "Import Data": the upload is read and cleaned, then merged on the button
ImportData ==
    \E cur \in {app_load(file)} :
      \E up \in CleanedUploads[MaxRecords - Len(cur)] :
        \E merged \in {clean_data(Frame(cur \o up.imp.rows)).rows} :
          /\ Len(cur) + Len(up.csv.rows) <= MaxRecords
          /\ IF up.imp.raised
             THEN /\ data' = cur
                  /\ file' = file
                  /\ outcome' = "import_error"
                  /\ dropped' = 0
             ELSE /\ data' = merged
                  /\ file' = save_data(merged)
                  /\ outcome' = "saved"
                  /\ dropped' = Len(cur) + Len(up.imp.rows) - Len(merged)
          /\ UNCHANGED recVars

TaskNames == {strip(lower(n)) : n \in NameInputs} \cup {astype_str(NaN)}

\* "Mark Complete" on a row of the task list
MarkComplete ==
    \E cur \in {app_load(file)} :
      \E i \in DOMAIN cur :
        \E marked \in {[cur EXCEPT ![i].completed = TRUE]} :
          /\ ~cur[i].completed
          /\ data' = marked
          /\ file' = save_data(marked)
          /\ outcome' = "saved"
          /\ dropped' = 0
          /\ UNCHANGED recVars

\* the delete button of a row of the task list
DeleteTask ==
    \E cur \in {app_load(file)} :
      \E i \in DOMAIN cur :
        \E kept \in {RemoveAt(cur, i)} :
          /\ data' = kept
          /\ file' = save_data(kept)
          /\ outcome' = "saved"
          /\ dropped' = 0
          /\ UNCHANGED recVars

\* Focus Timer: the run in which remaining_time has reached 0 for focus_task
TimerComplete ==
    \E cur \in {app_load(file)} :
      \E focus_task \in TaskNames :
        LET
          today_tasks == {i \in DOMAIN cur : cur[i].date = Today /\ ~cur[i].completed}
          named == {i \in today_tasks : cur[i].task = focus_task}
          task_idx == CHOOSE i \in named : \A j \in named : i <= j
          marked == [cur EXCEPT ![task_idx].completed = TRUE]
        IN
          /\ named # {}
          /\ data' = marked
          /\ file' = save_data(marked)
          /\ outcome' = "saved"
          /\ dropped' = 0
          /\ UNCHANGED recVars


----------------------------------------------------------------------------
(* Recommender state while the store specifications run *)

NoTask == [none |-> TRUE]

\* TaskRecommender.__init__: nothing is fitted
NotFitted == [n |-> 0, vocabulary |-> {}, sum |-> <<>>, den |-> <<>>, categories |-> <<>>]

\* forecaster state while the other specifications run
NoResult ==
    [none |-> TRUE, entry |-> "none",
     history |-> [name |-> "", points |-> <<>>], forecast |-> [name |-> "", points |-> <<>>]]

\* no summary yet
NoSummary == [made |-> FALSE]

\* analytics state while the other specifications run
NoScore == [raised |-> FALSE, called |-> FALSE]

AnIdle ==
    /\ score_df = <<>>
    /\ weights = [time |-> 0, completion |-> 0]
    /\ score = NoScore
    /\ burnout_df = <<>>
    /\ risk = "none"

\* export state while the other specifications run
ExIdle ==
    /\ tags_mem = <<>>
    /\ export_csv = <<>>
    /\ tags_back = <<>>

\* st.session_state.current_task = None
NoCurrentTask == <<"None">>

\* app.py, "Initialize Components": the timer of a new session
TimerIdle ==
    /\ timer_running = FALSE
    /\ paused = FALSE
    /\ remaining_time = 0
    /\ current_task = NoCurrentTask
    /\ selected_focus_task = NoCurrentTask
    /\ timer_refresh = 0
    /\ timer_event = "none"

\* TimeSeriesForecaster(): nothing was forecast
ForecastIdle ==
    /\ records = <<>>
    /\ horizon = 0
    /\ draws = <<>>
    /\ result = NoResult
    /\ summary = NoSummary

FcIdle ==
    /\ ForecastIdle
    /\ AnIdle
    /\ ExIdle
    /\ TimerIdle

\* no store: data.csv does not exist
StoreIdle ==
    /\ file = NoFile
    /\ data = <<>>
    /\ outcome = "none"
    /\ dropped = 0

\* TaskRecommender(): nothing was recommended
RecommenderIdle ==
    /\ pool = <<>>
    /\ input_task = NoTask
    /\ top_n = 0
    /\ exclude_completed = TRUE
    /\ rounding = 0
    /\ recs = <<>>
    /\ fitted = NotFitted
    /\ stale = FALSE

RecIdle ==
    /\ RecommenderIdle
    /\ FcIdle

----------------------------------------------------------------------------
(* Specifications of the store *)

InitStore ==
    /\ file = NoFile
    /\ data = app_load(file)
    /\ outcome = "none"
    /\ dropped = 0
    /\ RecIdle

InitLoad ==
    /\ file \in CsvFiles(MaxRecords)
    /\ data = app_load(file)
    /\ outcome = "none"
    /\ dropped = 0
    /\ RecIdle

NextForm ==
    \/ AddTask
    \/ MarkComplete
    \/ DeleteTask
    \/ TimerComplete

NextStore ==
    \/ NextForm
    \/ ImportData

\* the app with every handler, from an empty store
Spec == InitStore /\ [][NextStore]_vars

\* the app without CSV import, from an empty store
SpecForm == InitStore /\ [][NextForm]_vars

\* the app started on a data.csv that was not written by it
SpecLoad == InitLoad /\ [][NextStore]_vars

----------------------------------------------------------------------------
(* Properties of the record store *)

Intersect(r1, r2) == r1.start_time < r2.end_time /\ r2.start_time < r1.end_time

Touching(rows) ==
    \E i, j \in DOMAIN rows :
        /\ rows[i].date = rows[j].date
        /\ rows[i].end_time = rows[j].start_time
        /\ rows[i].start_time < rows[i].end_time
        /\ rows[j].start_time < rows[j].end_time

NoSameDateOverlap(rows) ==
    \A i, j \in DOMAIN rows :
        (i # j /\ rows[i].date = rows[j].date) => ~Intersect(rows[i], rows[j])

NoDuplicateKeys(rows) ==
    \A i, j \in DOMAIN rows : DupKey(rows[i]) = DupKey(rows[j]) => i = j

C2_RejectionMutatesNothing ==
    [][outcome' = "overlap" => (data' = app_load(file) /\ file' = file)]_vars

C2_Witness == outcome = "overlap" /\ Len(data) = MaxRecords /\ Len(file.rows) = MaxRecords

\* C3: from an empty store, with manual adds through the form, completions
\* and deletions only, no two stored records of the same date intersect
C3_NoSameDateOverlap == NoSameDateOverlap(data) /\ NoSameDateOverlap(load_data(file))

C3_Witness ==
    /\ outcome = "saved"
    /\ \E i, j \in DOMAIN data :
          i # j /\ data[i].date = data[j].date /\ data[i].start_time < data[j].start_time

\* C4: every stored record has duration > 0 and start_time strictly earlier
\* than end_time
C4_PositiveDurationAndOrder ==
    \A i \in DOMAIN data : data[i].time_taken > 0 /\ data[i].start_time < data[i].end_time

\* C5: no two stored records share (date, normalized task, start_time,
\* duration), and a stored record whose key an incoming one shares stays as
\* it was (apart from a completion)
C5_StoredKept ==
    \A r \in Range(app_load(file)) : \A r2 \in Range(data') :
        DupKey(r) = DupKey(r2) => (r2 = r \/ r2 = [r EXCEPT !.completed = TRUE])

C6_ReloadEqualsMemory == outcome = "saved" => load_data(file) = data

\* C7: from one handler to the next a stored record changes only by completed
\* going from False to True or by its deletion
C7_Step ==
    \/ \E i \in DOMAIN data : data' = RemoveAt(data, i)
    \/ /\ Len(data') >= Len(data)
       /\ \A i \in DOMAIN data :
             data'[i] = data[i] \/ data'[i] = [data[i] EXCEPT !.completed = TRUE]

C7_OnlyCompletionOrDeletion == [][C7_Step]_vars

\* C8: loading a file that lacks a column but holds a record with a valid
\* date, start time and duration never yields an empty record set
RowValid(f, i) ==
    /\ {"date", "start_time", "time_taken"} \subseteq f.header
    /\ to_date(f.rows[i].date) # NaT
    /\ to_datetime(f.rows[i].start_time) # NaT
    /\ to_numeric(f.rows[i].time_taken) > 0

C8_LoadKeepsValidRecords ==
    (file.exists /\ \E i \in DOMAIN file.rows : RowValid(file, i)) => load_data(file) # <<>>

----------------------------------------------------------------------------
(* The recommender (recommendations.py).  A candidate frame is a sequence  *)
(* of rows with the columns task, category, priority, intent, difficulty   *)
(* and completed; every text of a row is one word of two or more letters   *)
(* that is no stop word.  Cosines are kept exact: with n rows in the fitted     *)
(* frame and D the common denominator of the standardised difficulty, a    *)
(* score is num / sqrt(ctx * norm), all three counted in units of 1 / D.   *)

MinPool == 5        \* recommend_tasks: len(df) < 5
MaxPool == 5        \* longest candidate frame
TopNs == {3, 5}     \* the slider offers 3..8
Roundings == {-1, 0, 1}

TextCols == {"task", "tags", "notes"}
NumericCols == {"energy_level", "focus_level", "difficulty"}
CategoricalCols == {"category", "priority", "mood", "intent"}

Task(name, cat, prio, intent, diff, done) ==
    [task |-> name, completed |-> done, intent |-> intent, category |-> cat,
     priority |-> prio, difficulty |-> diff]

PoolRows ==
    { Task("report", "Work", "High", "Complete", 3, FALSE),
      Task("email", "Work", "Low", "Learn", 1, FALSE),
      Task("email", "Study", "Low", "Learn", 2, TRUE) }

\* the context: nothing, a row of the frame, a row with the category
\* overridden, and a record the frame does not hold
Contexts ==
    { NoTask,
      Task("report", "Work", "High", "Complete", 3, FALSE),
      Task("email", "Study", "Low", "Learn", 1, FALSE),
      Task("gym", "Health", "Low", "Explore", 7, FALSE) }

Pools == SeqsUpTo(PoolRows, MaxPool)

clip(v, lo, hi) == IF v < lo THEN lo ELSE IF v > hi THEN hi ELSE v

\* preprocess_data: a column the frame lacks is filled with '' (text), with 0
\* clipped into the scale (numeric) or with 'unknown' (categorical)
preprocess_data(r) ==
    [task |-> r.task, intent |-> r.intent, category |-> r.category,
     priority |-> r.priority, difficulty |-> clip(r.difficulty, 1, 5),
     tags |-> "", notes |-> "",
     energy_level |-> clip(0, 1, 10), focus_level |-> clip(0, 1, 10),
     mood |-> "unknown"]

RECURSIVE Sum(_, _)
Sum(f, S) == IF S = {} THEN 0 ELSE LET x == CHOOSE y \in S : TRUE IN f[x] + Sum(f, S \ {x})

\* fit_models: what TfidfVectorizer, StandardScaler and OneHotEncoder learn
\* from the processed frame
fit_models(processed) ==
    LET n == Len(processed)
        col == [c \in NumericCols |-> [i \in DOMAIN processed |-> processed[i][c]]]
        S == [c \in NumericCols |-> Sum(col[c], DOMAIN processed)]
        Q == [c \in NumericCols |->
                n * Sum([i \in DOMAIN processed |-> col[c][i] * col[c][i]], DOMAIN processed)
                    - S[c] * S[c]]
    IN  [n |-> n,
         vocabulary |-> {processed[i][c] : i \in DOMAIN processed, c \in TextCols} \ {""},
         sum |-> S,
         \* the variance times n * n, or n * n where the scaler sets scale_ to 1
         den |-> [c \in NumericCols |-> IF Q[c] = 0 THEN n * n ELSE Q[c]],
         categories |-> [c \in CategoricalCols |-> {processed[i][c] : i \in DOMAIN processed}]]

\* the standardised value of v in column c, times sqrt(den[c])
scaled(m, c, v) == m.n * v - m.sum[c]

\* what the vectorizer, the scaler and the encoder make of one processed row:
\* a unit text vector (or none), scaled numbers, one indicator per column
transform(m, p) ==
    [text |-> {p[c] : c \in TextCols} \cap m.vocabulary,
     numeric |-> [c \in NumericCols |-> scaled(m, c, p[c])],
     categorical |-> [c \in CategoricalCols |-> IF p[c] \in m.categories[c] THEN p[c] ELSE "ignored"]]

\* energy_level and focus_level hold one constant on every row and in the
\* context, which standardises to 0: difficulty sets the denominator
Den(m) == m.den["difficulty"]

\* the dot product of two transformed rows, times Den(m)
dot(m, x, y) ==
    Den(m) * ((IF x.text # {} /\ x.text = y.text THEN 1 ELSE 0)
              + Cardinality({c \in CategoricalCols :
                    x.categorical[c] # "ignored" /\ x.categorical[c] = y.categorical[c]}))
        + x.numeric["difficulty"] * y.numeric["difficulty"]

\* cosine_similarity of the context vector x with the row vector y, and the
\* floating-point error of a cosine that is exactly 1
cosine_similarity(m, x, y, ulps) ==
    LET num == dot(m, x, y)
        ctx == dot(m, x, x)
        norm == dot(m, y, y)
    IN  [ulps |-> IF num > 0 /\ num * num = ctx * norm THEN ulps ELSE 0,
         num |-> num, ctx |-> ctx, norm |-> norm]

\* comparisons of two scores of one call (they share ctx)
Sq(s, t) == s.num * s.num * t.norm

ScoreGE(s, t) ==
    CASE s.num >= 0 /\ t.num < 0 -> TRUE
      [] s.num < 0 /\ t.num >= 0 -> FALSE
      [] s.num >= 0 /\ t.num >= 0 -> Sq(s, t) >= Sq(t, s)
      [] OTHER -> Sq(s, t) <= Sq(t, s)

ScoreGT(s, t) == ~ScoreGE(t, s)

\* similarity == 1.0
IsOne(s) == s.num > 0 /\ s.num * s.num = s.ctx * s.norm /\ s.ulps = 0

\* sort_values(ascending=False): descending, equal scores in their order
sort_values(s0) ==
    Let(s0, LAMBDA s :
        Let([i \in DOMAIN s |->
                1 + Cardinality({j \in DOMAIN s :
                        \/ ScoreGT(s[j].similarity_score, s[i].similarity_score)
                        \/ j < i /\ ScoreGE(s[j].similarity_score, s[i].similarity_score)})],
            LAMBDA rank : [k \in DOMAIN s |-> s[CHOOSE i \in DOMAIN s : rank[i] = k]] \o <<>>))

head(s, n) == SubSeq(s, 1, IF n < Len(s) THEN n ELSE Len(s))

drop_perfect(s) == SeqFilter(LAMBDA e : ~IsOne(e.similarity_score), s)

\* variant: only an empty frame is refused
too_small_empty_only(df) == df = <<>>

\* recommend_tasks, line 91
too_small(df) == df = <<>> \/ Len(df) < MinPool

\* recommend_tasks, lines 94-96: rows keep their index labels
work_df(df, exclude) ==
    SeqFilter(LAMBDA e : ~(exclude /\ e.row.completed),
              [i \in DOMAIN df |-> [row |-> df[i], index |-> i]] \o <<>>)

\* recommend_tasks, lines 105-141: the score of every row of the work frame
similarity_scores(self, input, work, ulps) ==
    Let(self, LAMBDA m :
        Let(transform(m, preprocess_data(input)), LAMBDA x :
            SeqMap(LAMBDA e : [row |-> e.row,
                               similarity_score |->
                                   cosine_similarity(m, x, transform(m, preprocess_data(e.row)), ulps),
                               index |-> e.index],
                   work)))

\* variant: the list is cut to top_n before the perfect matches are dropped
top_rows_head_first(sorted, n) == drop_perfect(head(sorted, n))

\* recommend_tasks, lines 143-153
top_rows(sorted, n) == head(drop_perfect(sorted), n)

\* ', '.join(reasons): the pieces of the joined text
RECURSIVE join(_, _)
join(sep, parts) ==
    IF Len(parts) <= 1 THEN parts
    ELSE <<Head(parts), sep>> \o join(sep, Tail(parts))

\* variant: the priority is tested before the category
build_reason_priority_first(row, input) ==
    LET reasons ==
            (IF row.priority = input.priority THEN <<"matching priority">> ELSE <<>>)
            \o (IF row.category = input.category THEN <<"same category">> ELSE <<>>)
            \o (IF row.intent = input.intent THEN <<"similar intent">> ELSE <<>>)
            \o (IF row.difficulty - input.difficulty \in -1..1 THEN <<"similar difficulty">> ELSE <<>>)
    IN  IF reasons # <<>> THEN join(", ", reasons) ELSE <<"closest overall match">>

build_reason(row, input) ==
    LET reasons ==
            (IF row.category = input.category THEN <<"same category">> ELSE <<>>)
            \o (IF row.priority = input.priority THEN <<"matching priority">> ELSE <<>>)
            \o (IF row.intent = input.intent THEN <<"similar intent">> ELSE <<>>)
            \o (IF row.difficulty - input.difficulty \in -1..1 THEN <<"similar difficulty">> ELSE <<>>)
    IN  IF reasons # <<>> THEN join(", ", reasons) ELSE <<"closest overall match">>

\* the two ways a block of code ends: with a frame, or with an exception;
\* self is the instance as the block leaves it
returned(rows, self) == [rows |-> rows, raised |-> FALSE, self |-> self]
raise(self) == [rows |-> <<>>, raised |-> TRUE, self |-> self]

\* variant: the handler lets the exception through
except_reraise(r) == r

\* except Exception as e: ... return pd.DataFrame()
except_return_empty(r) == IF r.raised THEN returned(<<>>, r.self) ELSE r

processed_df(work) == SeqMap(LAMBDA e : preprocess_data(e.row), work)

\* variant: the encoders are fitted by the first call only
refit_once(self, work) ==
    IF self.n > 0 THEN returned(<<>>, self)
    ELSE Let(fit_models(processed_df(work)), LAMBDA m :
            IF m.vocabulary = {} THEN raise([self EXCEPT !.vocabulary = {}]) ELSE returned(<<>>, m))

\* recommend_tasks, line 111: fit_models assigns the three encoders of the
\* instance; TfidfVectorizer.fit_transform raises ValueError (empty
\* vocabulary) when no row of the frame has a word, after the new vectorizer
\* was assigned and before the scaler and the encoder are
refit(self, work) ==
    Let(fit_models(processed_df(work)), LAMBDA m :
        IF m.vocabulary = {} THEN raise([self EXCEPT !.vocabulary = {}]) ELSE returned(<<>>, m))

recommend_tasks(self, input, df, n, exclude, ulps) ==
    except_return_empty(
        IF input = NoTask \/ too_small(df) THEN returned(<<>>, self)
        ELSE Let(work_df(df, exclude), LAMBDA work :
                IF work = <<>> THEN returned(<<>>, self)
                ELSE Let(refit(self, work), LAMBDA f :
                        IF f.raised THEN except_return_empty(f)
                        ELSE returned(
                                sort_values(
                                    SeqMap(LAMBDA e : [row |-> e.row,
                                                       similarity_score |-> e.similarity_score,
                                                       index |-> e.index,
                                                       reason |-> build_reason(e.row, input)],
                                           top_rows(sort_values(
                                                similarity_scores(f.self, input, work, ulps)), n))),
                                f.self))))

\* "Generate recommendations"
Recommend ==
    \E r \in {recommend_tasks(fitted, input_task, pool, top_n, exclude_completed, rounding)} :
      /\ recs' = r.rows
      /\ fitted' = r.self
      /\ stale' = (fitted # NotFitted /\ fitted # r.self)
      /\ outcome' = IF r.raised THEN "exception" ELSE "recommended"
      /\ UNCHANGED <<pool, input_task, top_n, exclude_completed, rounding>>
      /\ UNCHANGED <<file, data, dropped, fcVars>>

InitRec ==
    /\ file = NoFile
    /\ data = <<>>
    /\ outcome = "none"
    /\ dropped = 0
    /\ pool \in Pools
    /\ input_task \in Contexts
    /\ top_n \in TopNs
    /\ exclude_completed \in BOOLEAN
    /\ rounding \in Roundings
    /\ recs = <<>>
    /\ fitted = NotFitted
    /\ stale = FALSE
    /\ FcIdle

NextRec == Recommend

\* one call of the recommender on any candidate frame
SpecRec == InitRec /\ [][NextRec]_vars

----------------------------------------------------------------------------
(* Properties of the recommender *)

\* C9: on a candidate pool of fewer than 5 records recommend_tasks returns an
\* empty result, whatever the context, top_n and exclude_completed
C9_SmallPoolEmpty == (outcome = "recommended" /\ Len(pool) < MinPool) => recs = <<>>

\* a call with a context on four uncompleted records
C9_Witness ==
    /\ outcome = "recommended"
    /\ recs = <<>>
    /\ Len(pool) = MinPool - 1
    /\ input_task # NoTask
    /\ \A i \in DOMAIN pool : ~pool[i].completed

\* the scores of the rows that are compared in the current call
Scored ==
    Let(work_df(pool, exclude_completed), LAMBDA work :
        similarity_scores(fit_models(processed_df(work)), input_task, work, rounding))

Candidates(scored) == {i \in DOMAIN scored : ~IsOne(scored[i].similarity_score)}

Returned(scored) == {i \in DOMAIN scored : \E k \in DOMAIN recs : recs[k].index = scored[i].index}

\* C10: for a context and a pool of at least 5 records, the returned rows are
\* in non-increasing order of score, are at most top_n, are the top_n
\* highest-scoring rows among those whose score is not exactly 1.0, and none
\* of them has score exactly 1.0
C10_TopNSortedNoPerfect ==
    (outcome = "recommended" /\ input_task # NoTask /\ Len(pool) >= MinPool) =>
        \A scored \in {Scored} :
            /\ \A k \in 1..(Len(recs) - 1) :
                  ScoreGE(recs[k].similarity_score, recs[k + 1].similarity_score)
            /\ Len(recs) <= top_n
            /\ \A k \in DOMAIN recs : ~IsOne(recs[k].similarity_score)
            /\ \A k \in DOMAIN recs : \E i \in DOMAIN scored :
                  /\ scored[i].index = recs[k].index
                  /\ scored[i].similarity_score = recs[k].similarity_score
            /\ \A k, l \in DOMAIN recs : recs[k].index = recs[l].index => k = l
            /\ Len(recs) = IF Cardinality(Candidates(scored)) < top_n
                           THEN Cardinality(Candidates(scored)) ELSE top_n
            /\ \A i \in Candidates(scored) \ Returned(scored), j \in Returned(scored) :
                  ScoreGE(scored[j].similarity_score, scored[i].similarity_score)

\* a call that dropped a perfect match and cut the rest to top_n rows of
\* differing scores
C10_Witness ==
    /\ outcome = "recommended"
    /\ Len(recs) = top_n
    /\ input_task # NoTask
    /\ \E k \in DOMAIN recs : ScoreGT(recs[1].similarity_score, recs[k].similarity_score)
    /\ \E i \in DOMAIN Scored : IsOne(Scored[i].similarity_score)
    /\ Cardinality(Candidates(Scored)) > top_n

\* C11: every similarity score that recommend_tasks returns lies in [0, 1];
\* stated for its lower end: the cosine over the concatenated features of a
\* returned row is never negative
C11_NoNegativeScore ==
    outcome = "recommended" => \A k \in DOMAIN recs : recs[k].similarity_score.num >= 0

----------------------------------------------------------------------------
(* The recommendation panel of app.py: the context is a row of the         *)
(* candidate frame, with the category and the priority overridden or not.  *)
(* The rows of the model carry one date, so recent_choices keeps the order *)
(* of rec_df.                                                              *)

Auto == "Auto"
PriorityChoices == {Auto, "Low", "Medium", "High"}

\* rec_df, app.py lines 1303-1306
rec_df(df, exclude) == SeqFilter(LAMBDA r : ~(exclude /\ r.completed), df)

\* the first row of recent_choices whose task is context_task
context_index(df, context_task) ==
    CHOOSE i \in DOMAIN df : df[i].task = context_task /\ \A j \in 1..(i - 1) : df[j].task # context_task

\* context_row, app.py lines 1333-1338
context_row(df, context_task, override_category, override_priority) ==
    LET row == df[context_index(df, context_task)]
    IN  [row EXCEPT !.category = IF override_category # Auto THEN override_category ELSE @,
                    !.priority = IF override_priority # Auto THEN override_priority ELSE @]

\* "Generate recommendations" in the panel
Generate ==
    \E candidates \in {rec_df(pool, exclude_completed)} :
      /\ Len(candidates) >= MinPool
      /\ \E context_task \in {candidates[i].task : i \in DOMAIN candidates},
            override_category \in {Auto} \cup {candidates[i].category : i \in DOMAIN candidates},
            override_priority \in PriorityChoices :
           \E context \in {context_row(candidates, context_task, override_category, override_priority)} :
            \E r \in {recommend_tasks(fitted, context, candidates, top_n, exclude_completed, rounding)} :
             /\ input_task' = context
             /\ pool' = candidates
             /\ recs' = r.rows
             /\ fitted' = r.self
             /\ stale' = (fitted # NotFitted /\ fitted # r.self)
             /\ outcome' = IF r.raised THEN "exception" ELSE "recommended"
             /\ UNCHANGED <<top_n, exclude_completed, rounding>>
             /\ UNCHANGED <<file, data, dropped, fcVars>>

InitApp ==
    /\ file = NoFile
    /\ data = <<>>
    /\ outcome = "none"
    /\ dropped = 0
    /\ pool \in Pools
    /\ input_task = NoTask
    /\ top_n \in TopNs
    /\ exclude_completed \in BOOLEAN
    /\ rounding = 0
    /\ recs = <<>>
    /\ fitted = NotFitted
    /\ stale = FALSE
    /\ FcIdle

NextApp == Generate

\* the panel on any record set, cosines computed exactly
SpecApp == InitApp /\ [][NextApp]_vars

\* C12: when the context is a row of the candidate pool, with or without
\* overrides, that row is not among the returned rows
C12_ContextNotReturned ==
    outcome = "recommended" =>
        \A k \in DOMAIN recs : recs[k].index # context_index(pool, input_task.task)

----------------------------------------------------------------------------
(* Properties of the reasons *)

\* the conditions of a reason in their fixed order, each with whether it
\* holds between a returned row and the context
Conditions(row, ctx) ==
    << [text |-> "same category", holds |-> row.category = ctx.category],
       [text |-> "matching priority", holds |-> row.priority = ctx.priority],
       [text |-> "similar intent", holds |-> row.intent = ctx.intent],
       [text |-> "similar difficulty",
        holds |-> row.difficulty - ctx.difficulty <= 1 /\ ctx.difficulty - row.difficulty <= 1] >>

\* C13: the reason of every returned row lists, in the fixed order and joined
\* by ', ', exactly the conditions that hold between the row and the context,
\* and is 'closest overall match' exactly when none holds; a row that shares
\* category and priority with the context has a reason that starts with
\* 'same category, matching priority'
C13_ReasonListsWhatHolds ==
    outcome = "recommended" =>
        \A k \in DOMAIN recs :
            \E conds \in {Conditions(recs[k].row, input_task)} :
              \E held \in {SelectSeq(conds, LAMBDA c : c.holds)} :
                /\ held = <<>> <=> recs[k].reason = <<"closest overall match">>
                /\ held # <<>> =>
                      /\ Len(recs[k].reason) = 2 * Len(held) - 1
                      /\ \A i \in DOMAIN recs[k].reason :
                            recs[k].reason[i] = IF i % 2 = 1 THEN held[(i + 1) \div 2].text ELSE ", "
                /\ (conds[1].holds /\ conds[2].holds) =>
                      SubSeq(recs[k].reason, 1, 3) = <<"same category", ", ", "matching priority">>

\* a result with a row that shares category and priority with the context
\* and a row that shares nothing with it
C13_Witness ==
    /\ outcome = "recommended"
    /\ \E k \in DOMAIN recs :
          recs[k].row.category = input_task.category /\ recs[k].row.priority = input_task.priority
    /\ \E k \in DOMAIN recs : recs[k].reason = <<"closest overall match">>

----------------------------------------------------------------------------
(* The recommender on frames it cannot fit *)

\* a row whose task has no word, and a row that has one
BlankRows ==
    { Task("", "Work", "Low", "Learn", 1, FALSE),
      Task("email", "Work", "Low", "Learn", 1, TRUE) }

InitBlank ==
    /\ file = NoFile
    /\ data = <<>>
    /\ outcome = "none"
    /\ dropped = 0
    /\ pool \in SeqsUpTo(BlankRows, MaxPool)
    /\ input_task \in Contexts
    /\ top_n \in TopNs
    /\ exclude_completed \in BOOLEAN
    /\ rounding \in Roundings
    /\ recs = <<>>
    /\ fitted = NotFitted
    /\ stale = FALSE
    /\ FcIdle

\* one call of the recommender on frames with blank tasks
SpecBlank == InitBlank /\ [][NextRec]_vars

\* the call failed in a stage, or had nothing to work on
Failed ==
    \/ input_task = NoTask
    \/ pool = <<>>
    \/ \A i \in DOMAIN pool : pool[i].task = "" \/ (exclude_completed /\ pool[i].completed)

\* C14: recommend_tasks never surfaces an exception, and returns an empty
\* result for a missing context, an empty pool and a failure in a stage
C14_NoExceptionSurfaces ==
    /\ outcome # "exception"
    /\ (outcome = "recommended" /\ Failed) => recs = <<>>

\* a call with a context on five rows without a word, where fitting fails
C14_Witness ==
    /\ outcome = "recommended"
    /\ input_task # NoTask
    /\ Len(pool) >= MinPool
    /\ \A i \in DOMAIN pool : pool[i].task = ""
    /\ recs = <<>>

----------------------------------------------------------------------------
(* One TaskRecommender instance serving call after call, as the instance   *)
(* kept in st.session_state does                                           *)

\* five rows: k reports and then emails, or rows without a word
SessionPools ==
    {[i \in 1..MinPool |-> IF i <= k THEN Task("report", "Work", "High", "Complete", 3, FALSE)
                           ELSE Task("email", "Work", "Low", "Learn", 1, FALSE)] \o <<>> : k \in {1, 4}}
        \cup {[i \in 1..MinPool |-> Task("", "Work", "Low", "Learn", 1, FALSE)] \o <<>>}

\* a call of recommend_tasks with any arguments on the instance as the
\* earlier calls left it
Call ==
    \E df \in SessionPools, input \in Contexts, n \in TopNs, exclude \in BOOLEAN :
      \E r \in {recommend_tasks(fitted, input, df, n, exclude, rounding)} :
        /\ pool' = df
        /\ input_task' = input
        /\ top_n' = n
        /\ exclude_completed' = exclude
        /\ recs' = r.rows
        /\ fitted' = r.self
        /\ stale' = (fitted # NotFitted /\ fitted # r.self)
        /\ outcome' = IF r.raised THEN "exception" ELSE "recommended"
        /\ UNCHANGED rounding
        /\ UNCHANGED <<file, data, dropped, fcVars>>

InitSession ==
    /\ file = NoFile
    /\ data = <<>>
    /\ outcome = "none"
    /\ dropped = 0
    /\ pool = <<>>
    /\ input_task = NoTask
    /\ top_n \in TopNs
    /\ exclude_completed = TRUE
    /\ rounding \in Roundings
    /\ recs = <<>>
    /\ fitted = NotFitted
    /\ stale = FALSE
    /\ FcIdle

NextSession == Call

\* a session of calls on one instance
SpecSession == InitSession /\ [][NextSession]_vars

\* C15: the result of a call is the result a new instance gives for the same
\* arguments, whatever calls the instance served before
C15_ResultOfArgumentsOnly ==
    outcome = "recommended" =>
        recs = recommend_tasks(NotFitted, input_task, pool, top_n, exclude_completed, rounding).rows

\* a call that returned rows on an instance fitted on another frame
C15_Witness == outcome = "recommended" /\ stale /\ recs # <<>>

-----------------------------------------------------------------------------
(* Forecaster: time_series_forecast.py *)

MaxHorizon == 2     \* longest forecast horizon of the inputs
MaxData == 2        \* most records in the frame handed to the forecaster
Draws == {-1, 0, 1} \* a random deviate: below, at or above its centre

\* a float holding n, kept in thousandths
float(n) == n * 1000

\* x * num / den on floats
times(x, num, den) == (x * num) \div den

\* Timestamp.weekday(): dates are day numbers and day 0 is a Monday
weekday(d) == d % 7

\* a record of the frame, with the columns the forecaster reads
Record(date, time_taken, completed) ==
    [date |-> date, time_taken |-> time_taken, completed |-> completed]

DataRows ==
    { Record(0, 30, TRUE), Record(5, 60, FALSE), Record(5, 30, TRUE),
      Record(6, 45, FALSE), Record(NaT, 30, TRUE), Record(6, -90, FALSE) }

DataFrames == SeqsUpTo(DataRows, MaxData)

\* pd.Series: a name and the points in index order
Series(name, points) == [name |-> name, points |-> points]

\* pd.Series(dtype=float)
EmptySeries == Series("", <<>>)

len(ts) == Len(ts.points)

\* ts.mean(), NaN (here: no value) on an empty series
mean(ts) ==
    Sum([k \in DOMAIN ts.points |-> ts.points[k].value], DOMAIN ts.points) \div len(ts)

\* ts.std() > 0: the sample deviation of two or more points that differ
std_positive(ts) == \E j, k \in DOMAIN ts.points : ts.points[j].value # ts.points[k].value

\* the dates of a groupby('date'), in index order
sorted_dates(days) ==
    CHOOSE s \in [1..Cardinality(days) -> days] :
        \A j, k \in 1..Cardinality(days) : j < k => s[j] < s[k]

\* prepare_time_series: one point per calendar day from the first to the last
\* dated record, 0 on the days without records
prepare_time_series(frame, metric) ==
    IF frame = <<>> THEN EmptySeries
    ELSE LET df == SeqFilter(LAMBDA r : r.date # NaT, frame) IN
         IF df = <<>> THEN EmptySeries
         ELSE LET days == {df[k].date : k \in DOMAIN df}
                  first == CHOOSE d \in days : \A e \in days : d <= e
                  last == CHOOSE d \in days : \A e \in days : d >= e
                  group(d) == {k \in DOMAIN df : df[k].date = d}
                  agg(d) ==
                      IF group(d) = {} THEN 0
                      ELSE IF metric = "task_count" THEN float(Cardinality(group(d)))
                      ELSE IF metric = "completion_rate"
                      THEN float(100 * Cardinality({k \in group(d) : df[k].completed}))
                               \div Cardinality(group(d))
                      ELSE float(Sum([k \in DOMAIN df |-> df[k].time_taken], group(d)))
              IN Series("", [k \in 1..(last - first + 1) |->
                                [date |-> first + k - 1, value |-> agg(first + k - 1)]])

\* _get_seasonality_factor, in hundredths
get_seasonality_factor(day_of_week) ==
    CASE day_of_week = 0 -> 95
      [] day_of_week = 1 -> 105
      [] day_of_week = 2 -> 110
      [] day_of_week = 3 -> 105
      [] day_of_week = 4 -> 90
      [] day_of_week = 5 -> 60
      [] day_of_week = 6 -> 50
      [] OTHER -> 100

\* variant: the dates start on the last historical date
date_range_from_last(start, periods) == [k \in 1..periods |-> start + k - 2]

\* pd.date_range(start=..., periods=..., freq='D')
date_range(start, periods) == [k \in 1..periods |-> start + k - 1]

\* np.random.normal(0, scale): no deviate when the scale is 0, and otherwise
\* one that may lie any distance from 0
normal(draw, scale) == IF scale = 0 THEN 0 ELSE draw * float(500)

\* np.random.uniform(low, high)
uniform(draw, low, high) ==
    (float(low) + float(high)) \div 2 + draw * ((float(high) - float(low)) \div 2)

\* np.linspace(start, stop, num)[i], i counted from 0
linspace(start, stop, num, i) ==
    IF num = 1 THEN start ELSE start + ((stop - start) * i) \div (num - 1)

\* variant: a percentage is only floored at 0
apply_bounds_floor_only(name, value) == IF value < 0 THEN 0 ELSE value

\* the bounds of both forecast loops: 'score' or 'rate' in the name of the
\* series clamps to [0, 100], any other name floors at 0
apply_bounds(name, value) ==
    IF name \in {"productivity_score", "completion_rate"}
    THEN clip(value, 0, float(100))
    ELSE IF value < 0 THEN 0 ELSE value

\* what a forecasting method returns, or that it raised
gave(forecast, other) == [raised |-> FALSE, forecast |-> forecast, other |-> other]
threw == [raised |-> TRUE, forecast |-> EmptySeries, other |-> EmptySeries]

\* a point of a forecast: its date, its value and the factor that scaled it
Point(date, value, seasonality, method) ==
    [date |-> date, value |-> value, seasonality |-> seasonality, method |-> method]

\* _create_fallback_forecast: the day whose factor scales the k-th value,
\* k counted from 1 (the loop counts i = k - 1 from 0)
fallback_day(last_date, k) == (weekday(last_date) + (k - 1)) % 7

\* _create_fallback_forecast
create_fallback_forecast(ts, h, rng) ==
    IF ts.points = <<>>
    THEN LET forecast_dates == date_range(Today + 1, h) IN
         gave(Series("", [k \in 1..h |->
                  Point(forecast_dates[k], uniform(rng[k], 60, 80), 100, "default")]),
              ts)
    ELSE LET last_date == ts.points[len(ts)].date
             forecast_dates == date_range(last_date + 1, h)
             mean_val == mean(ts)
             base(k) == linspace(mean_val, times(mean_val, 11, 10), h, k - 1)
             factor(k) == get_seasonality_factor(fallback_day(last_date, k))
         IN IF mean_val < 0 THEN threw
            ELSE gave(Series("", [k \in 1..h |->
                          Point(forecast_dates[k],
                                clip(times(base(k), factor(k), 100)
                                         + normal(rng[k], times(mean_val, 1, 10)),
                                     0, float(100)),
                                factor(k), "fallback")]),
                      ts)

\* variant: the steps counted from 0
day_of_week_from_zero(last_date, i) == (weekday(last_date) + (i - 1)) % 7

\* the weekday of forecast step i of both forecast loops, i counted from 1
day_of_week(last_date, i) == (weekday(last_date) + i) % 7

\* ts.rolling(window, min_periods=1).mean()
rolling_mean(ts, window) ==
    Series(ts.name, [k \in DOMAIN ts.points |->
        LET from == IF k - window + 1 < 1 THEN 1 ELSE k - window + 1 IN
        [date |-> ts.points[k].date,
         value |-> Sum([j \in DOMAIN ts.points |-> ts.points[j].value], from..k)
                       \div (k - from + 1)]])

\* np.mean of a list of trends
np_mean(xs) == Sum(xs, DOMAIN xs) \div Len(xs)

\* moving_average_forecast
moving_average_forecast(ts, window0, h, rng) ==
    IF len(ts) < 2 THEN create_fallback_forecast(ts, h, rng)
    ELSE LET n == len(ts)
             window == IF n < window0 THEN (IF n \div 2 > 3 THEN n \div 2 ELSE 3) ELSE window0
             ma == rolling_mean(ts, window)
             v(k) == ts.points[k].value
             short_window == IF n < 7 THEN n ELSE 7
             trends == (IF n >= 3 THEN <<(v(n) - v(n - short_window + 1)) \div short_window>>
                        ELSE <<>>)
                       \o <<times((v(n) - v(1)) \div n, 1, 2)>>
             trend == np_mean(trends)
             volatility_positive == std_positive(ts) \/ mean(ts) > 0
             last_date == ts.points[n].date
             forecast_dates == date_range(last_date + 1, h)
             value(i) ==
                 LET seasonality == get_seasonality_factor(day_of_week(last_date, i))
                     noise == IF volatility_positive THEN normal(rng[i], 1)
                              ELSE uniform(rng[i], -2, 2)
                 IN Point(forecast_dates[i],
                          apply_bounds(ts.name,
                              times(ma.points[n].value, seasonality, 100)
                                  + times(trend * i, 8, 10) + noise),
                          seasonality, "moving_average")
         IN gave(Series("", [i \in 1..h |-> value(i)]), ma)

\* exponential_smoothing_forecast, alpha in hundredths
exponential_smoothing_forecast(ts, alpha, h, rng) ==
    IF len(ts) < 2 THEN create_fallback_forecast(ts, h, rng)
    ELSE LET n == len(ts)
             smoothed[k \in 1..n] ==
                 IF k = 1 THEN ts.points[1].value
                 ELSE (alpha * ts.points[k].value + (100 - alpha) * smoothed[k - 1]) \div 100
             trend_components ==
                 (IF n >= 3 THEN <<(smoothed[n] - smoothed[n - 2]) \div 3>> ELSE <<>>)
                 \o (IF n >= 7 THEN <<times((smoothed[n] - smoothed[n - 6]) \div 7, 7, 10)>>
                     ELSE <<>>)
                 \o <<times((smoothed[n] - smoothed[1]) \div n, 1, 2)>>
             trend == np_mean(trend_components)
             last_date == ts.points[n].date
             forecast_dates == date_range(last_date + 1, h)
             value(i) ==
                 LET seasonality == get_seasonality_factor(day_of_week(last_date, i))
                     variation == IF std_positive(ts) THEN normal(rng[i], 1)
                                  ELSE uniform(rng[i], -3, 3)
                 IN Point(forecast_dates[i],
                          apply_bounds(ts.name,
                              times(smoothed[n] + times(trend * i, 6, 10), seasonality, 100)
                                  + variation),
                          seasonality, "exponential_smoothing")
         IN gave(Series("", [i \in 1..h |-> value(i)]),
                 Series(ts.name, [k \in 1..n |->
                            [date |-> ts.points[k].date, value |-> smoothed[k]]]))


\* the pair an entry point returns: (None, None) or (history, forecast)
NonePair == [none |-> TRUE, history |-> EmptySeries, forecast |-> EmptySeries]
Pair(history, forecast) == [none |-> FALSE, history |-> history, forecast |-> forecast]

\* an arithmetic operation on every value of a series
map_values(Op(_), s) ==
    Series(s.name, SeqMap(LAMBDA p : [p EXCEPT !.value = Op(p.value)], s.points))

\* Series.round().astype(int): to the nearest whole number, halves to the even one
round_astype_int(v) ==
    LET q == v \div 1000
        r == v % 1000
    IN float(IF r < 500 THEN q ELSE IF r > 500 THEN q + 1 ELSE IF q % 2 = 0 THEN q ELSE q + 1)

\* forecast_productivity_score
forecast_productivity_score(frame, h, rng) ==
    IF frame = <<>> THEN NonePair
    ELSE LET df == SeqFilter(LAMBDA r : r.date # NaT, frame) IN
         IF df = <<>> THEN NonePair
         ELSE LET days == {df[k].date : k \in DOMAIN df}
                  dates == sorted_dates(days)
                  x(d) == {k \in DOMAIN df : df[k].date = d}
                  daily_scores ==
                      Series("productivity_score", [k \in 1..Cardinality(days) |->
                          [date |-> dates[k],
                           value |-> float(100 * Cardinality({j \in x(dates[k]) : df[j].completed}))
                                         \div Cardinality(x(dates[k]))]])
                  r == IF len(daily_scores) < 2
                       THEN create_fallback_forecast(daily_scores, h, rng)
                       ELSE exponential_smoothing_forecast(daily_scores, 40, h, rng)
              IN IF r.raised THEN NonePair ELSE Pair(daily_scores, r.forecast)

\* forecast_workload
forecast_workload(frame, h, rng) ==
    LET ts == [prepare_time_series(frame, "time_taken") EXCEPT !.name = "workload_minutes"]
    IN IF len(ts) < 2
       THEN LET r == create_fallback_forecast(ts, h, rng) IN
            IF r.raised THEN NonePair
            ELSE Pair(ts, map_values(LAMBDA v : v * 60, r.forecast))
       ELSE LET r == moving_average_forecast(ts, 7, h, rng) IN
            IF r.raised THEN NonePair ELSE Pair(ts, r.forecast)

\* forecast_task_count
forecast_task_count(frame, h, rng) ==
    LET ts == [prepare_time_series(frame, "task_count") EXCEPT !.name = "task_count"]
    IN IF len(ts) < 2
       THEN LET r == create_fallback_forecast(ts, h, rng) IN
            IF r.raised THEN NonePair
            ELSE Pair(ts, map_values(round_astype_int, r.forecast))
       ELSE LET r == exponential_smoothing_forecast(ts, 30, h, rng) IN
            IF r.raised THEN NonePair
            ELSE Pair(ts, map_values(LAMBDA v : IF round_astype_int(v) < 0 THEN 0
                                                ELSE round_astype_int(v),
                                     r.forecast))

\* forecast_completion_rate
forecast_completion_rate(frame, h, rng) ==
    LET ts == [prepare_time_series(frame, "completion_rate") EXCEPT !.name = "completion_rate"]
        r == IF len(ts) < 2 THEN create_fallback_forecast(ts, h, rng)
             ELSE exponential_smoothing_forecast(ts, 35, h, rng)
    IN IF r.raised THEN NonePair
       ELSE Pair(ts, map_values(LAMBDA v : IF v > float(100) THEN float(100) ELSE v,
                                r.forecast))

\* the pair and the entry point that returned it
called(entry, pair) ==
    [none |-> pair.none, entry |-> entry, history |-> pair.history, forecast |-> pair.forecast]

othersUnchanged ==
    UNCHANGED <<file, data, outcome, dropped, pool, input_task, top_n, exclude_completed,
                rounding, recs, fitted, stale, records, horizon, draws, summary,
                anVars, exVars, timerVars>>

ForecastProductivityScore ==
    /\ result' = called("forecast_productivity_score",
                        forecast_productivity_score(records, horizon, draws))
    /\ othersUnchanged

ForecastWorkload ==
    /\ result' = called("forecast_workload", forecast_workload(records, horizon, draws))
    /\ othersUnchanged

ForecastTaskCount ==
    /\ result' = called("forecast_task_count", forecast_task_count(records, horizon, draws))
    /\ othersUnchanged

ForecastCompletionRate ==
    /\ result' = called("forecast_completion_rate",
                        forecast_completion_rate(records, horizon, draws))
    /\ othersUnchanged

InitForecast ==
    /\ file = NoFile
    /\ data = <<>>
    /\ outcome = "none"
    /\ dropped = 0
    /\ pool = <<>>
    /\ input_task = NoTask
    /\ top_n = 0
    /\ exclude_completed = TRUE
    /\ rounding = 0
    /\ recs = <<>>
    /\ fitted = NotFitted
    /\ stale = FALSE
    /\ records \in DataFrames
    /\ horizon \in 1..MaxHorizon
    /\ draws \in [1..horizon -> Draws]
    /\ result = NoResult
    /\ summary = NoSummary
    /\ AnIdle
    /\ ExIdle
    /\ TimerIdle

NextForecast ==
    \/ ForecastProductivityScore
    \/ ForecastWorkload
    \/ ForecastTaskCount
    \/ ForecastCompletionRate

SpecForecast == InitForecast /\ [][NextForecast]_vars

\* C16: for a horizon h >= 1 and a non-empty history, the forecast an entry
\* point returns has exactly h points, dated on the consecutive days that
\* start the day after the last historical date
C16_HorizonPointsOnConsecutiveDays ==
    (~result.none /\ result.history.points # <<>>) =>
        /\ len(result.forecast) = horizon
        /\ \A k \in 1..len(result.forecast) :
               result.forecast.points[k].date
                   = result.history.points[len(result.history)].date + k

\* a forecast of more than one day from a history of several days
C16_Witness ==
    /\ ~result.none
    /\ len(result.history) >= 2
    /\ len(result.forecast) >= 2


\* C17: whatever the history, the horizon and the random draws, on the primary
\* and on the fallback path, a productivity-score or completion-rate forecast
\* value lies in [0, 100], a workload forecast value is at least 0, and a
\* task-count forecast value is a whole number that is at least 0
C17_ForecastValuesInRange ==
    ~result.none =>
        \A k \in DOMAIN result.forecast.points :
            LET v == result.forecast.points[k].value IN
            /\ result.entry \in {"forecast_productivity_score", "forecast_completion_rate"}
                   => (0 <= v /\ v <= float(100))
            /\ result.entry = "forecast_workload" => v >= 0
            /\ result.entry = "forecast_task_count" => (v >= 0 /\ v % float(1) = 0)

\* a productivity-score forecast of the primary path whose first step drew a
\* deviate far above the centre
C17_Witness ==
    /\ result.entry = "forecast_productivity_score"
    /\ ~result.none
    /\ result.forecast.points[1].method = "exponential_smoothing"
    /\ draws[1] = 1
    /\ result.forecast.points[1].value = float(100)


\* the weekly table: Mon 0.95, Tue 1.05, Wed 1.10, Thu 1.05, Fri 0.90,
\* Sat 0.60, Sun 0.50, in hundredths
WeekdayPattern == <<95, 105, 110, 105, 90, 60, 50>>

\* C18: in a moving-average or exponential-smoothing forecast, the factor that
\* scales step i is the table entry for the weekday of the step's own date,
\* the last historical date plus i days
C18_FactorOfOwnWeekday ==
    ~result.none =>
        \A i \in DOMAIN result.forecast.points :
            LET p == result.forecast.points[i] IN
            p.method \in {"moving_average", "exponential_smoothing"} =>
                /\ p.date = result.history.points[len(result.history)].date + i
                /\ p.seasonality = WeekdayPattern[weekday(p.date) + 1]

\* a moving-average step that lands on a Sunday and is scaled by 0.50
C18_Witness ==
    /\ ~result.none
    /\ \E i \in DOMAIN result.forecast.points :
           LET p == result.forecast.points[i] IN
           /\ p.method = "moving_average"
           /\ weekday(p.date) = 6
           /\ p.seasonality = 50


\* C19: in a fallback forecast from a history of one point, the factor that
\* scales a value is the table entry for the weekday of the value's own
\* forecast date
C19_FallbackFactorOfOwnWeekday ==
    ~result.none =>
        \A i \in DOMAIN result.forecast.points :
            LET p == result.forecast.points[i] IN
            p.method = "fallback" => p.seasonality = WeekdayPattern[weekday(p.date) + 1]


\* C20: an entry point called with an empty record set returns the pair
\* (None, None), not a forecast
C20_EmptyRecordsGiveNonePair ==
    (result.entry # "none" /\ records = <<>>) => result.none


-----------------------------------------------------------------------------
(* Productivity score: utils.py *)

MaxScoreRows == 2   \* most records in the frame handed to calculate_productivity_score

DEFAULT_PRODUCTIVE_CATEGORIES == {"Coding", "Academics", "Development", "Project"}

\* a record, with the columns calculate_productivity_score reads
ScoreRow(time_taken, completed, category) ==
    [time_taken |-> time_taken, completed |-> completed, category |-> category]

ScoreRows ==
    { ScoreRow(30, TRUE, "Coding"), ScoreRow(60, FALSE, "Coding"),
      ScoreRow(30, TRUE, "Break"), ScoreRow(60, FALSE, "Break") }

ScoreFrames == SeqsUpTo(ScoreRows, MaxScoreRows)

\* weights in hundredths: the default, two other valid pairs, a pair that
\* does not sum to 1 and a pair outside [0, 1]
Weight(time, completion) == [time |-> time, completion |-> completion]

WeightInputs ==
    { Weight(70, 30), Weight(50, 50), Weight(100, 0), Weight(70, 20), Weight(120, -20) }

\* df[mask]["time_taken"].sum()
sum_time(df, mask) == Sum([k \in DOMAIN df |-> df[k].time_taken], mask)

\* round(x, 1) of x = num / den, in tenths, for num >= 0 and den > 0
round1(num, den) == (2 * 10 * num + den) \div (2 * den)

\* what the function returned: the tuple, in tenths, or that it raised
score_tuple(s, productive_time, total_time, completion_rate) ==
    [score |-> s, raised |-> FALSE, called |-> TRUE, productive_time |-> productive_time,
     total_time |-> total_time, completion_rate |-> completion_rate]

ValueError == [raised |-> TRUE, called |-> TRUE]

\* the records of a productive category, completed or not
productive_mask_any(df, productive_cats) ==
    {k \in DOMAIN df : df[k].category \in productive_cats}

\* the rows whose time counts as productive
productive_mask(df, productive_cats) ==
    {k \in DOMAIN df : df[k].completed /\ df[k].category \in productive_cats}

\* calculate_productivity_score with the default categories
calculate_productivity_score(df, w) ==
    IF df = <<>> THEN score_tuple(0, 0, 0, 0)
    ELSE IF ~(0 <= w.time /\ w.time <= 100) \/ ~(0 <= w.completion /\ w.completion <= 100)
    THEN ValueError
    ELSE IF w.time + w.completion # 100 THEN ValueError
    ELSE LET total_time == sum_time(df, DOMAIN df)
             productive_time == sum_time(df, productive_mask(df, DEFAULT_PRODUCTIVE_CATEGORIES))
             completed_tasks == Cardinality({k \in DOMAIN df : df[k].completed})
             total_tasks == Len(df)
             \* score = (time_component * w_time + completion_component * w_completion) * 100
             \*       = (productive_time * w.time * total_tasks
             \*          + completed_tasks * w.completion * total_time) / (total_time * total_tasks)
             s == IF total_time > 0
                  THEN round1(productive_time * w.time * total_tasks
                                  + completed_tasks * w.completion * total_time,
                              total_time * total_tasks)
                  ELSE round1(completed_tasks * w.completion, total_tasks)
         IN score_tuple(s, round1(productive_time, 1), round1(total_time, 1),
                        round1(completed_tasks * 100, total_tasks))

CalculateProductivityScore ==
    /\ score' = calculate_productivity_score(score_df, weights)
    /\ UNCHANGED <<file, data, outcome, dropped, pool, input_task, top_n, exclude_completed,
                   rounding, recs, fitted, stale, records, horizon, draws, result, summary,
                   score_df, weights, burnout_df, risk, exVars, timerVars>>

InitScore ==
    /\ StoreIdle
    /\ RecommenderIdle
    /\ ForecastIdle
    /\ score_df \in ScoreFrames
    /\ weights \in WeightInputs
    /\ score = NoScore
    /\ burnout_df = <<>>
    /\ risk = "none"
    /\ ExIdle
    /\ TimerIdle

NextScore == CalculateProductivityScore

SpecScore == InitScore /\ [][NextScore]_vars

\* C21: for non-empty data with some logged time and for valid weights, the
\* score is 100 x (w_time x P/T + w_completion x C/N) with P the total time of
\* all records of a productive category, T the total time, C the number of
\* completed records and N the number of records
C21_ScoreOfAllProductiveTime ==
    (score.called /\ ~score.raised /\ score_df # <<>> /\ sum_time(score_df, DOMAIN score_df) > 0) =>
        LET P == sum_time(score_df, productive_mask_any(score_df, DEFAULT_PRODUCTIVE_CATEGORIES))
            T == sum_time(score_df, DOMAIN score_df)
            C == Cardinality({k \in DOMAIN score_df : score_df[k].completed})
            N == Len(score_df)
        IN score.score = round1(P * weights.time * N + C * weights.completion * T, T * N)


-----------------------------------------------------------------------------
(* Export and import of the tags column: app.py and data_handler.py.  The  *)
(* records of a frame differ in their keys, so none is dropped as a        *)
(* duplicate; only their tags are followed here.                           *)

MaxExport == 2      \* most records in the exported frame
MaxTags == 2        \* most tags typed into the form for one record

TAGS_SEPARATOR == ","

\* the tags the form accepts for a record: stripped, non-empty, without commas
TagInputs == SeqsUpTo({<<"a">>, <<"b">>}, MaxTags)

Contains(s, c) == \E k \in DOMAIN s : s[k] = c

\* str.split(sep) on one character
RECURSIVE split(_, _)
split(s, sep) ==
    IF ~Contains(s, sep) THEN <<s>>
    ELSE LET k == CHOOSE i \in DOMAIN s : s[i] = sep /\ \A j \in 1..(i - 1) : s[j] # sep
         IN <<SubSeq(s, 1, k - 1)>> \o split(SubSeq(s, k + 1, Len(s)), sep)

\* sep.join(parts), sep a text
RECURSIVE str_join(_, _)
str_join(sep, parts) ==
    IF parts = <<>> THEN <<>>
    ELSE IF Len(parts) = 1 THEN parts[1]
    ELSE parts[1] \o sep \o str_join(sep, Tail(parts))

\* repr() of a str: double quotes when the text holds a single quote and no
\* double quote, single quotes otherwise; the quote and the backslash escaped
RECURSIVE escape(_, _)
escape(s, quote) ==
    IF s = <<>> THEN <<>>
    ELSE (IF Head(s) = "\\" \/ Head(s) = quote THEN <<"\\", Head(s)>> ELSE <<Head(s)>>)
             \o escape(Tail(s), quote)

repr(s) ==
    LET quote == IF Contains(s, "'") /\ ~Contains(s, "\"") THEN "\"" ELSE "'"
    IN <<quote>> \o escape(s, quote) \o <<quote>>

\* str() of a list of str, what astype(str) and to_csv make of a tags cell
str_list(tags) == <<"[">> \o str_join(<<",", " ">>, SeqMap(repr, tags)) \o <<"]">>

\* a CSV field as to_csv writes it: quoted when it holds a comma or a quote
csv_field(cell) ==
    IF Contains(cell, ",") \/ Contains(cell, "\"")
    THEN <<"\"">> \o str_join(<<"\"", "\"">>, split(cell, "\"")) \o <<"\"">>
    ELSE cell

\* the field as read_csv parses it: unquoted, an empty field is NaN
csv_parse(field) ==
    IF field = <<>> THEN NaN
    ELSE IF Head(field) = "\""
    THEN LET inner == SubSeq(field, 2, Len(field) - 1)
             parts == split(inner, "\"")
             \* a doubled quote gives an empty part between two parts
             kept == [k \in 1..((Len(parts) + 1) \div 2) |-> parts[2 * k - 1]]
         IN str_join(<<"\"">>, kept)
    ELSE field

\* clean_data, the tags column read from a CSV: text or NaN
clean_tags_text(cell) ==
    LET x == IF cell = NaN THEN <<>> ELSE cell
    IN SeqFilter(LAMBDA tag : tag # <<>>, SeqMap(strip, split(x, TAGS_SEPARATOR)))

\* clean_data, the tags column of a frame that already holds lists:
\* astype(str) writes the list out and the text is split again
clean_tags_list(tags) == clean_tags_text(str_list(tags))

\* save_data: the list joined into one cell
save_tags(tags) == str_join(<<TAGS_SEPARATOR>>, tags)

\* load_data, then app.py "Load Data" cleaning the loaded frame once more
app_load_tags(field) == clean_tags_list(clean_tags_text(csv_parse(field)))

\* data.to_csv(index=False) of the download button: the lists are written as
\* they are
export_tags(tags) == csv_field(str_list(tags))

\* "Import Data" into an empty store: the upload is read and cleaned, and the
\* frame concatenated with the empty store is cleaned again
import_tags(field) == clean_tags_list(clean_tags_text(csv_parse(field)))

\* the frames in memory: what a script run loads from a data.csv whose
\* records were saved from the form
MemFrames ==
    {SeqMap(LAMBDA t : app_load_tags(csv_field(save_tags(t))), f) :
        f \in SeqsUpTo(TagInputs, MaxExport) \ {<<>>}}

ExportData ==
    /\ export_csv = <<>>
    /\ export_csv' = SeqMap(export_tags, tags_mem)
    /\ UNCHANGED <<tags_mem, tags_back>>
    /\ UNCHANGED <<file, data, outcome, dropped, pool, input_task, top_n, exclude_completed,
                   rounding, recs, fitted, stale, records, horizon, draws, result, summary,
                   anVars, timerVars>>

ImportExported ==
    /\ export_csv # <<>>
    /\ tags_back = <<>>
    /\ tags_back' = SeqMap(import_tags, export_csv)
    /\ UNCHANGED <<tags_mem, export_csv>>
    /\ UNCHANGED <<file, data, outcome, dropped, pool, input_task, top_n, exclude_completed,
                   rounding, recs, fitted, stale, records, horizon, draws, result, summary,
                   anVars, timerVars>>

InitExport ==
    /\ StoreIdle
    /\ RecommenderIdle
    /\ ForecastIdle
    /\ AnIdle
    /\ TimerIdle
    /\ tags_mem \in MemFrames
    /\ export_csv = <<>>
    /\ tags_back = <<>>

NextExport == ExportData \/ ImportExported

SpecExport == InitExport /\ [][NextExport]_vars

\* C22: a record set exported with the download button and imported into an
\* empty store comes back with the tag list of every record as it was
C22_TagsSurviveExportImport ==
    tags_back # <<>> => tags_back = tags_mem


\* C23: the history an entry point hands to the forecasting primitive has
\* exactly one point for every calendar day from the first to the last logged
\* date, for each of the four metrics
C23_HistoryDenseForEveryMetric ==
    (~result.none /\ result.history.points # <<>>) =>
        \A k \in 1..len(result.history) :
            result.history.points[k].date = result.history.points[1].date + k - 1


-----------------------------------------------------------------------------
(* get_forecast_summary: the trend of each metric.  The labels are kept     *)
(* without their pictographs.  Every call of an entry point draws its own  *)
(* deviates; an entry of the summary depends on the deviates of its own    *)
(* call only, and the same stream is handed to each call.                  *)

\* forecast.iloc[-1] - forecast.iloc[0]
first_to_last(forecast) ==
    forecast.points[len(forecast)].value - forecast.points[1].value

\* variant: the workload labelled with the dead zone of the completion rate
workload_trend_of_two(d) ==
    IF d > float(2) THEN "increasing" ELSE IF d < -float(2) THEN "decreasing" ELSE "stable"

\* the trend of the productivity score
score_trend(d) ==
    IF d > float(1) THEN "increasing" ELSE IF d < -float(1) THEN "decreasing" ELSE "stable"

\* the trend of the workload, in minutes
workload_trend(d) ==
    IF d > float(10) THEN "increasing" ELSE IF d < -float(10) THEN "decreasing" ELSE "stable"

\* the trend of the completion rate
completion_trend(d) ==
    IF d > float(2) THEN "improving" ELSE IF d < -float(2) THEN "declining" ELSE "stable"

\* an entry of the summary, and a key the summary does not have
Entry(d, trend) == [d |-> d, trend |-> trend, present |-> TRUE]
NoEntry == [d |-> 0, trend |-> "none", present |-> FALSE]

\* get_forecast_summary: the trends; the averages and the best and worst days
\* of the entries are not followed
get_forecast_summary(frame, h, rng) ==
    LET s == forecast_productivity_score(frame, h, rng)
        w == forecast_workload(frame, h, rng)
        t == forecast_task_count(frame, h, rng)
        c == forecast_completion_rate(frame, h, rng)
    IN [horizon |-> h,
        made |-> TRUE,
        completion |-> IF c.none THEN NoEntry
                       ELSE Entry(first_to_last(c.forecast),
                                  completion_trend(first_to_last(c.forecast))),
        productivity |-> IF s.none THEN NoEntry
                         ELSE Entry(first_to_last(s.forecast),
                                    score_trend(first_to_last(s.forecast))),
        workload |-> IF w.none THEN NoEntry
                     ELSE Entry(first_to_last(w.forecast),
                                workload_trend(first_to_last(w.forecast))),
        tasks |-> IF t.none THEN NoEntry ELSE Entry(0, "none")]

GetForecastSummary ==
    /\ ~summary.made
    /\ summary' = get_forecast_summary(records, horizon, draws)
    /\ UNCHANGED <<file, data, outcome, dropped, pool, input_task, top_n, exclude_completed,
                   rounding, recs, fitted, stale, records, horizon, draws, result,
                   anVars, exVars, timerVars>>

NextSummary == GetForecastSummary

SpecSummary == InitForecast /\ [][NextSummary]_vars

abs(x) == IF x < 0 THEN -x ELSE x

\* the trend of an entry is the label of d for a dead zone of the given
\* width: stable exactly within it, the rising label above, the falling below
Labelled(entry, zone, rising, falling) ==
    entry.present =>
        /\ entry.trend = "stable" <=> abs(entry.d) <= float(zone)
        /\ entry.trend = rising <=> entry.d > float(zone)
        /\ entry.trend = falling <=> entry.d < -float(zone)

\* C24: the trend of each metric is determined by d = last - first forecast
\* value alone: stable exactly when |d| is within the metric's dead zone (1
\* point for the productivity score, 10 minutes for the workload, 2 points
\* for the completion rate), rising above it and falling below it
C24_TrendLabelOfFirstToLast ==
    summary.made =>
        /\ Labelled(summary.productivity, 1, "increasing", "decreasing")
        /\ Labelled(summary.workload, 10, "increasing", "decreasing")
        /\ Labelled(summary.completion, 2, "improving", "declining")

\* a workload forecast that moves by more than 2 and at most 10 minutes, and
\* a productivity forecast that moves by more than 1 point
C24_Witness ==
    /\ summary.made
    /\ summary.workload.present
    /\ abs(summary.workload.d) > float(2)
    /\ abs(summary.workload.d) <= float(10)
    /\ summary.productivity.present
    /\ abs(summary.productivity.d) > float(1)

\* C24 as stated: the dead zone of every metric is 1 to 2 points wide, so a
\* move of at most 1 is stable and a move of more than 2 is never stable
C24_DeadZoneOfOneToTwoPoints ==
    summary.made =>
        \A entry \in {summary.productivity, summary.workload, summary.completion} :
            entry.present =>
                /\ abs(entry.d) <= float(1) => entry.trend = "stable"
                /\ abs(entry.d) > float(2) => entry.trend # "stable"


-----------------------------------------------------------------------------
(* assess_burnout_risk: Analytics.py *)

AssessDay == 30     \* date.today() on the day the risk is assessed
MaxFill == 14       \* most consecutive days, from 13 days back, with a short record

BurnoutRow(date, time_taken, category) ==
    [date |-> date, time_taken |-> time_taken, category |-> category]

\* a short record on each of the first k days of the last 14
FillRows(k) == [i \in 1..k |-> BurnoutRow(AssessDay - 14 + i, 30, "Coding")]

\* long days among the last 14, long days dated after today, a long day of
\* weeks ago, a break today and a record without a date
SpecialRows ==
    << BurnoutRow(AssessDay - 4, 500, "Coding"), BurnoutRow(AssessDay - 3, 500, "Coding"),
       BurnoutRow(AssessDay - 2, 500, "Coding"), BurnoutRow(AssessDay - 1, 500, "Coding"),
       BurnoutRow(AssessDay, 500, "Coding"),
       BurnoutRow(AssessDay + 1, 600, "Coding"), BurnoutRow(AssessDay + 2, 600, "Coding"),
       BurnoutRow(AssessDay + 3, 600, "Coding"),
       BurnoutRow(AssessDay - 25, 500, "Coding"),
       BurnoutRow(AssessDay, 60, "Break"),
       BurnoutRow(NaT, 30, "Coding") >>

\* the rows of a sequence at the chosen positions, in their order
RECURSIVE Pick(_, _)
Pick(s, chosen) ==
    IF s = <<>> THEN <<>>
    ELSE Pick(SubSeq(s, 1, Len(s) - 1), chosen)
             \o (IF Len(s) \in chosen THEN <<s[Len(s)]>> ELSE <<>>)

BurnoutFrames ==
    {FillRows(k) \o Pick(SpecialRows, chosen) :
        k \in 0..MaxFill, chosen \in SUBSET DOMAIN SpecialRows}

\* the days of a frame, and the minutes logged on a day
days_of(df) == {df[k].date : k \in DOMAIN df}
daily_time(df, d) == Sum([k \in DOMAIN df |-> df[k].time_taken], {k \in DOMAIN df : df[k].date = d})

\* the integer score from which the risk is read
bucket(risk_score) ==
    IF risk_score >= 4 THEN "High" ELSE IF risk_score >= 2 THEN "Medium" ELSE "Low"

\* the score of a frame when the recent days are the given ones
risk_score_over(df, recent) ==
    LET long_workdays == {d \in recent : daily_time(df, d) > 480}
        total_recent == Sum([d \in recent |-> daily_time(df, d)], recent)
        all_dates == (AssessDay - 13)..AssessDay
        unlogged_days_in_period == {d \in all_dates : d \notin days_of(df) /\ d <= AssessDay}
        break_personal_time ==
            Sum([k \in DOMAIN df |-> df[k].time_taken],
                {k \in DOMAIN df : df[k].category \in {"Break", "Personal"}})
        total_logged_time == Sum([k \in DOMAIN df |-> df[k].time_taken], DOMAIN df)
    IN (IF recent # {} /\ Cardinality(long_workdays) >= 3 THEN 2 ELSE 0)
       + (IF recent # {} /\ Cardinality(long_workdays) >= 5 THEN 3 ELSE 0)
       \* daily_time.mean() / 60 > 9
       + (IF recent # {} /\ total_recent > 9 * 60 * Cardinality(recent) THEN 1 ELSE 0)
       + (IF Cardinality(unlogged_days_in_period) >= 3 THEN 1 ELSE 0)
       \* break_personal_time / total_logged_time < 0.05
       + (IF total_logged_time > 0 /\ 20 * break_personal_time < total_logged_time
          THEN 1 ELSE 0)

\* the logged days of the last 14 days
last_14_days(df) == {d \in days_of(df) : d >= AssessDay - 13 /\ d <= AssessDay}

\* recent_data: every logged day from 13 days back on
recent_days(df) == {d \in days_of(df) : d >= AssessDay - 13}

assess_burnout_risk(frame) ==
    IF frame = <<>> THEN "Low"
    ELSE LET df == SeqFilter(LAMBDA r : r.date # NaT, frame) IN
         IF df = <<>> THEN "Low"
         ELSE bucket(risk_score_over(df, recent_days(df)))

AssessBurnoutRisk ==
    /\ risk = "none"
    /\ risk' = assess_burnout_risk(burnout_df)
    /\ UNCHANGED <<file, data, outcome, dropped, pool, input_task, top_n, exclude_completed,
                   rounding, recs, fitted, stale, records, horizon, draws, result, summary,
                   score_df, weights, score, burnout_df, exVars, timerVars>>

InitBurnout ==
    /\ StoreIdle
    /\ RecommenderIdle
    /\ ForecastIdle
    /\ score_df = <<>>
    /\ weights = Weight(0, 0)
    /\ score = NoScore
    /\ burnout_df \in BurnoutFrames
    /\ risk = "none"
    /\ ExIdle
    /\ TimerIdle

NextBurnout == AssessBurnoutRisk

SpecBurnout == InitBurnout /\ [][NextBurnout]_vars

\* the dated records of the frame assessed
Dated(frame) == SeqFilter(LAMBDA r : r.date # NaT, frame)

\* the days of the last 14 with more than 480 logged minutes
LongDaysOfLast14(frame) ==
    {d \in last_14_days(Dated(frame)) : daily_time(Dated(frame), d) > 480}

\* C25: the risk is Low, Medium or High, read from the score of the last 14
\* days: +2 for 3 or more long days among them and +3 more for 5 or more, +1
\* for an average above 9 hours, +1 for 3 or more days without a record, +1
\* for a break share under 5%; empty data gives Low, 5 or more long days give
\* High and High needs at least 3 long days
C25_RiskOfLast14Days ==
    risk # "none" =>
        /\ risk \in {"Low", "Medium", "High"}
        /\ Dated(burnout_df) = <<>> => risk = "Low"
        /\ Dated(burnout_df) # <<>> =>
               risk = bucket(risk_score_over(Dated(burnout_df), last_14_days(Dated(burnout_df))))
        /\ Cardinality(LongDaysOfLast14(burnout_df)) >= 5 => risk = "High"
        /\ risk = "High" => Cardinality(LongDaysOfLast14(burnout_df)) >= 3


-----------------------------------------------------------------------------
(* Records that enter otherwise than through the form *)

\* add_manual_task called with an explicit end_time_obj, any time of day
AddTaskWithEnd ==
    \E cur \in {app_load(file)} :
      \E name \in NameInputs, d \in Dates, slot \in Slots, end \in Slots, dur \in Durations :
        \E r \in {add_manual_task(cur, file, name, dur, d, slot, end)} :
          /\ Len(cur) < MaxRecords \/ r.raised
          /\ data' = r.data
          /\ file' = r.file
          /\ outcome' = IF r.raised THEN "overlap" ELSE "saved"
          /\ dropped' = IF r.raised THEN 0 ELSE Len(cur) + 1 - Len(r.data)
          /\ UNCHANGED recVars

NextEntry ==
    \/ NextStore
    \/ AddTaskWithEnd

\* the app with every handler and the callers that pass an end time
SpecEntry == InitStore /\ [][NextEntry]_vars

\* C26: after a CSV import or an add with an explicit end time, no two stored
\* records of one date have intersecting [start, end) intervals, neither in
\* the session's frame nor in what the next script run loads
C26_NoOverlapHoweverEntered ==
    NoSameDateOverlap(data) /\ NoSameDateOverlap(app_load(file))


-----------------------------------------------------------------------------
(* The pool that is compared *)

\* the records left of the pool once the completed ones are removed
Uncompleted(df) == SeqFilter(LAMBDA r : ~r.completed, df)

\* C27: with exclude_completed set, fewer than 5 uncompleted records in the
\* pool give an empty result, and no returned record is completed
C27_MinimumOfComparedPool ==
    (outcome = "recommended" /\ exclude_completed) =>
        /\ Len(Uncompleted(pool)) < MinPool => recs = <<>>
        /\ \A k \in DOMAIN recs : ~recs[k].row.completed


-----------------------------------------------------------------------------
(* Focus Timer: app.py.  An action is the script run an event starts, and   *)
(* the run that st.rerun() starts after it.                                *)

MaxRefresh == 2     \* the refresh count of st_autorefresh is followed up to here

\* the session state of the timer
Session(running, is_paused, remaining, current, selected, refresh) ==
    [timer_running |-> running, paused |-> is_paused, remaining_time |-> remaining,
     current_task |-> current, selected_focus_task |-> selected, timer_refresh |-> refresh]

session ==
    Session(timer_running, paused, remaining_time, current_task, selected_focus_task,
            timer_refresh)

\* a record of today saved from the form
TimerRow(name, slot, minutes) ==
    [date |-> Today, task |-> name, start_time |-> combine(Today, slot),
     end_time |-> combine(Today, slot) + minutes, time_taken |-> minutes, completed |-> FALSE]

\* the stores a session of the timer starts on
TimerStores ==
    { save_data(<<TimerRow(<<"a">>, 0, 1)>>),
      save_data(<<TimerRow(<<"a">>, 0, 1), TimerRow(<<"b">>, 1, 1)>>),
      save_data(<<TimerRow(<<"a">>, 0, 1), TimerRow(<<"b">>, 1, 2)>>) }

\* today_tasks: the index labels of the uncompleted records of today
today_tasks(cur) == {i \in DOMAIN cur : cur[i].date = Today /\ ~cur[i].completed}

\* today_tasks["task"].unique().tolist()
task_options(cur) == {cur[i].task : i \in today_tasks(cur)}

\* the first of today's tasks with the given name
first_named(cur, name) ==
    CHOOSE i \in today_tasks(cur) :
        cur[i].task = name /\ \A j \in today_tasks(cur) : cur[j].task = name => i <= j

\* the value of the selectbox: the selected option while it is offered, the
\* first option otherwise
focus_of(selected, cur) ==
    IF selected \in task_options(cur) THEN selected
    ELSE cur[CHOOSE i \in today_tasks(cur) : \A j \in today_tasks(cur) : i <= j].task

\* what a script run leaves: the session state, the frame, the file and
\* whether it ended in st.rerun()
Ran(s, cur, f, rerun) == [file |-> f, data |-> cur, session |-> s, rerun |-> rerun]

\* Start pressed while no timer runs, lines 1386-1389
started(s, cur, focus_task, event) ==
    IF event = "start" /\ ~s.timer_running
    THEN [s EXCEPT !.timer_running = TRUE,
                   !.remaining_time = cur[first_named(cur, focus_task)].time_taken * 60,
                   !.current_task = focus_task,
                   !.selected_focus_task = focus_task]
    ELSE [s EXCEPT !.selected_focus_task = focus_task]

\* st_autorefresh and the decrement, lines 1392-1395: the count grows in a
\* run that the refresh started
counted(s, event) ==
    Let(IF event = "tick"
        THEN (IF s.timer_refresh < MaxRefresh THEN s.timer_refresh + 1 ELSE MaxRefresh)
        ELSE s.timer_refresh,
        LAMBDA countdown :
            [s EXCEPT !.remaining_time = IF countdown # 0 /\ ~s.paused THEN @ - 1 ELSE @,
                      !.timer_refresh = countdown])

\* Pause and Reset, lines 1403-1407
pressed(s, event) ==
    IF event = "pause" THEN [s EXCEPT !.paused = TRUE]
    ELSE IF event = "reset" THEN [s EXCEPT !.timer_running = FALSE, !.remaining_time = 0]
    ELSE s

\* the end of the countdown, lines 1409-1415
finished(s, cur, f, focus_task) ==
    IF s.remaining_time <= 0
    THEN Let([cur EXCEPT ![first_named(cur, focus_task)].completed = TRUE],
             LAMBDA marked :
                 Ran([s EXCEPT !.timer_running = FALSE], marked, save_data(marked), TRUE))
    ELSE Ran(s, cur, f, FALSE)

\* the Focus Timer block of a script run, lines 1374-1417; event is the
\* button pressed or the refresh that started the run, pick the option chosen
focus_timer(s, cur, f, event, pick) ==
    IF today_tasks(cur) = {}
    THEN Ran([s EXCEPT !.selected_focus_task = NoCurrentTask, !.timer_refresh = 0],
             cur, f, FALSE)
    ELSE Let(IF event = "select" THEN pick ELSE focus_of(s.selected_focus_task, cur),
             LAMBDA focus_task :
                 IF focus_task = <<>>
                 THEN Ran([s EXCEPT !.selected_focus_task = focus_task, !.timer_refresh = 0],
                          cur, f, FALSE)
                 ELSE Let(started(s, cur, focus_task, event),
                          LAMBDA s1 :
                              IF ~(s1.timer_running /\ s1.current_task = focus_task)
                              THEN Ran([s1 EXCEPT !.timer_refresh = 0], cur, f, FALSE)
                              ELSE Let(counted(s1, event),
                                       LAMBDA s2 :
                                           Let(pressed(s2, event),
                                               LAMBDA s4 : finished(s4, cur, f, focus_task)))))

\* a script run from "Load Data" on, and the run after st.rerun()
script_run(s, f, event, pick) ==
    Let(app_load(f),
        LAMBDA cur :
            Let(focus_timer(s, cur, f, event, pick),
                LAMBDA first :
                    IF first.rerun
                    THEN Let(app_load(first.file),
                             LAMBDA again :
                                 focus_timer(first.session, again, first.file, "none", pick))
                    ELSE first))

\* the timer's countdown, Pause and Reset are on the page
timer_view(s, f) ==
    Let(app_load(f),
        LAMBDA cur :
            /\ today_tasks(cur) # {}
            /\ s.timer_running
            /\ focus_of(s.selected_focus_task, cur) # <<>>
            /\ s.current_task = focus_of(s.selected_focus_task, cur))

\* the Start button is on the page
start_button(s, f) ==
    Let(app_load(f),
        LAMBDA cur : today_tasks(cur) # {} /\ focus_of(s.selected_focus_task, cur) # <<>>)

\* the state after a run
Becomes(ran, event) ==
    /\ timer_running' = ran.session.timer_running
    /\ paused' = ran.session.paused
    /\ remaining_time' = ran.session.remaining_time
    /\ current_task' = ran.session.current_task
    /\ selected_focus_task' = ran.session.selected_focus_task
    /\ timer_refresh' = ran.session.timer_refresh
    /\ timer_event' = event
    /\ data' = ran.data
    /\ file' = ran.file
    /\ outcome' = IF ran.file # file THEN "saved" ELSE outcome
    /\ UNCHANGED <<dropped, pool, input_task, top_n, exclude_completed, rounding, recs, fitted,
                   stale, records, horizon, draws, result, summary, anVars, exVars>>

\* another task is picked in the selectbox
SelectFocusTask ==
    \E pick \in task_options(app_load(file)) :
        /\ pick # focus_of(selected_focus_task, app_load(file))
        /\ \E ran \in {script_run(session, file, "select", pick)} : Becomes(ran, "select")

StartTimer ==
    /\ start_button(session, file)
    /\ \E ran \in {script_run(session, file, "start", NoCurrentTask)} : Becomes(ran, "start")

\* st_autorefresh reruns the script
Tick ==
    /\ timer_view(session, file)
    /\ \E ran \in {script_run(session, file, "tick", NoCurrentTask)} : Becomes(ran, "tick")

PauseTimer ==
    /\ timer_view(session, file)
    /\ \E ran \in {script_run(session, file, "pause", NoCurrentTask)} : Becomes(ran, "pause")

ResetTimer ==
    /\ timer_view(session, file)
    /\ \E ran \in {script_run(session, file, "reset", NoCurrentTask)} : Becomes(ran, "reset")

\* Task Management, "Mark Complete": the record is saved, and the script
\* runs again
ManageComplete ==
    \E cur \in {app_load(file)} :
      \E i \in DOMAIN cur :
        /\ ~cur[i].completed
        /\ \E ran \in {script_run(session, save_data([cur EXCEPT ![i].completed = TRUE]),
                                   "none", NoCurrentTask)} :
               Becomes(ran, "complete")

\* Task Management, delete
ManageDelete ==
    \E cur \in {app_load(file)} :
      \E i \in DOMAIN cur :
        \E ran \in {script_run(session, save_data(RemoveAt(cur, i)), "none", NoCurrentTask)} :
            Becomes(ran, "delete")

InitTimer ==
    /\ file \in TimerStores
    /\ data = app_load(file)
    /\ outcome = "none"
    /\ dropped = 0
    /\ RecommenderIdle
    /\ ForecastIdle
    /\ AnIdle
    /\ ExIdle
    /\ timer_running = FALSE
    /\ paused = FALSE
    /\ remaining_time = 0
    /\ current_task = NoCurrentTask
    /\ selected_focus_task = focus_of(NoCurrentTask, app_load(file))
    /\ timer_refresh = 0
    /\ timer_event = "none"

NextTimer ==
    \/ SelectFocusTask
    \/ StartTimer
    \/ Tick
    \/ PauseTimer
    \/ ResetTimer
    \/ ManageComplete
    \/ ManageDelete

SpecTimer == InitTimer /\ [][NextTimer]_vars

\* the completed records of a store
Completed(f) == {i \in DOMAIN app_load(f) : app_load(f)[i].completed}

\* C28: the timer marks its task completed only in a run in which the
\* countdown comes down to 0 from 1, and a run in which Reset is pressed
\* leaves every record as it was
C28_CompletedOnlyByCountdown ==
    [][/\ timer_event' = "reset" => app_load(file') = app_load(file)
       /\ (timer_event' \in {"tick", "pause", "select", "start"}
             /\ Completed(file') # Completed(file)) => remaining_time = 1]_vars


\* the timer with its scheduling: st_autorefresh reruns the script every
\* second while the timer's view is on the page, and the user presses Reset
\* and Start as long as the page offers them
SpecTimerLive ==
    /\ SpecTimer
    /\ WF_vars(Tick)
    /\ WF_vars(ResetTimer)
    /\ WF_vars(StartTimer)

\* C29: a paused timer runs again: paused does not stay true for the rest of
\* the session
C29_PausedTimerRunsAgain == paused ~> ~paused

\* C30: while timer_running is true, current_task names an uncompleted record
\* of today, so that the timer's view can be brought back to the page
C30_RunningTimerHasItsTask ==
    timer_running => current_task \in task_options(app_load(file))


ProbeInit == InitSession /\ recs = <<>>
ProbeRec == [rows |-> 0, columns |-> 0, raw |-> 0, exists |-> 0, header |-> 0, date |-> 0, task |-> 0, start_time |-> 0, end_time |-> 0, time_taken |-> 0, completed |-> 0, raised |-> 0, file |-> 0, data |-> 0, csv |-> 0, imp |-> 0, none |-> 0, n |-> 0, vocabulary |-> 0, sum |-> 0, den |-> 0, categories |-> 0, name |-> 0, points |-> 0, entry |-> 0, history |-> 0, forecast |-> 0, made |-> 0, called |-> 0, time |-> 0, completion |-> 0, intent |-> 0, category |-> 0, priority |-> 0, difficulty |-> 0, tags |-> 0, notes |-> 0, energy_level |-> 0, focus_level |-> 0, mood |-> 0, text |-> 0, numeric |-> 0, categorical |-> 0, ulps |-> 0, num |-> 0, ctx |-> 0, norm |-> 0, row |-> 0, index |-> 0, similarity_score |-> 0, self |-> 0, reason |-> 0, holds |-> 0, value |-> 0, other |-> 0, seasonality |-> 0, method |-> 0, score |-> 0, productive_time |-> 0, total_time |-> 0, completion_rate |-> 0, d |-> 0, trend |-> 0, present |-> 0, horizon |-> 0, productivity |-> 0, workload |-> 0, tasks |-> 0, timer_running |-> 0, paused |-> 0, remaining_time |-> 0, current_task |-> 0, selected_focus_task |-> 0, timer_refresh |-> 0, session |-> 0, rerun |-> 0]
ProbeInv == outcome # "none" \/ ProbeRec = 1
ProbeSpec == ProbeInit /\ [][NextSession]_vars
====
